---- MODULE Spec2Model ----
(***************************************************************************)
(* A model of the mempool storage, the best tip height fan-in, the peer    *)
(* error slot, the gossiped address validation and the chain syncer of     *)
(* zebra.                                                                  *)
(***************************************************************************)
EXTENDS Integers, Sequences, FiniteSets, TLC

----------------------------------------------------------------------------
(* Bounds of the model.                                                    *)

\* The largest number of spends (of all four pools together) of a transaction.
MaxSpends == 2

\* The number of Storage calls of a behaviour.
MaxOps == 3

\* Block heights are 0..MaxHeight.
MaxHeight == 3

\* Gossiped last_seen times and limits are 0..MaxTime.
MaxTime == 3

\* The largest number of addresses of a gossiped batch.
MaxPeers == 3

\* The configured lookahead limit is 1..MaxLookahead: MIN_LOOKAHEAD_LIMIT and
\* the sizes of the download sets are scaled down together.
MaxLookahead == 2

\* The largest number of hashes ObtainTips or ExtendTips hands to request_blocks.
MaxDownloadSet == 2

\* The largest number of prospective tips.
MaxTips == 2

\* The number of transaction downloads that finish in a behaviour.
MaxDownloads == 1

\* The largest number of hashes of a response to FindBlocks.
MaxHashes == 5

----------------------------------------------------------------------------
(* Program constants.                                                      *)

MEMPOOL_SIZE == 2

----------------------------------------------------------------------------
(* Helpers.                                                                *)

SeqsUpTo(S, n) == UNION {[1..k -> S] : k \in 0..n}

Range(s) == {s[i] : i \in 1..Len(s)}

\* Option<T> is the empty set (None) or a singleton (Some).
None == {}

Some(x) == {x}

----------------------------------------------------------------------------
(* Mempool storage: zebrad/src/components/mempool/storage.rs               *)

VARIABLES
    verified,           \* VecDeque<UnminedTx>, front first
    rejected,           \* HashMap<UnminedTxId, State>
    spent_outpoints,    \* HashSet<transparent::OutPoint>
    sprout_nullifiers,  \* HashSet<sprout::Nullifier>
    sapling_nullifiers, \* HashSet<sapling::Nullifier>
    orchard_nullifiers, \* HashSet<orchard::Nullifier>
    ret,                \* the last Storage call and what it returned
    prevTx,             \* the transaction of the Storage::insert call before the last call
    sinceEmpty,         \* the first two Storage calls made since the storage was empty
    nops                \* the number of Storage calls made

memVars == <<verified, rejected, spent_outpoints, sprout_nullifiers,
             sapling_nullifiers, orchard_nullifiers, ret, prevTx, sinceEmpty, nops>>

\* Mempool service: zebrad/src/components/mempool.rs
VARIABLES
    chain_reset,   \* whether the chain tip has been reset since has_reset was last called
    close_to_tip,  \* SyncStatus::is_close_to_tip()
    tx_ready,      \* the results of the finished downloads poll_next has still to yield
    pool_pc,       \* where Mempool::poll_ready is
    syncing_run,   \* the syncer has not been close to the tip since the last poll_ready began
    ndownloads     \* the number of downloads that have finished

poolVars == <<chain_reset, close_to_tip, tx_ready, pool_pc, syncing_run, ndownloads>>

\* Best tip height: zebra-state/src/service/best_tip_height.rs
VARIABLES
    finalized,      \* BestTipHeight::finalized
    non_finalized,  \* BestTipHeight::non_finalized, an Option
    sender,         \* the value of the watch channel, which the receiver borrows
    active_value,   \* BestTipHeight::active_value
    sent,           \* whether the last call sent a value on the watch channel
    tipLog,         \* the calls made on the BestTipHeight since new(), up to four
    published       \* the values the logged calls sent on the watch channel, oldest first

tipVars == <<finalized, non_finalized, sender, active_value, sent, tipLog, published>>

\* Peer error slot: zebra-network/src/peer/error.rs
VARIABLES
    error_slot,     \* ErrorSlot: the Option<SharedPeerError> behind the mutex
    slot_ret,       \* the last ErrorSlot call and what it returned
    observed        \* what try_get_error last returned to each holder of the slot

slotVars == <<error_slot, slot_ret, observed>>

\* Gossiped address validation: zebra-network/src/peer_set/candidate_set.rs
VARIABLES
    gossiped_peers,   \* the last_seen times of the batch, in the order received
    last_seen_limit,  \* the limit validate_addrs is called with
    validated_peers   \* None before the call, Some(the last_seen times it yields) after

addrVars == <<gossiped_peers, last_seen_limit, validated_peers>>

\* Chain syncer: zebrad/src/components/sync.rs
VARIABLES
    sync_pc,           \* where ChainSync::sync is
    lookahead_limit,   \* ChainSync::lookahead_limit
    in_flight,         \* Downloads::in_flight()
    tips_len,          \* prospective_tips.len()
    started_once,      \* the local of ChainSync::sync
    genesis_in_state,  \* whether the state has the genesis block
    hashes_left,       \* the hashes request_blocks has still to iterate over
    round_requested,   \* the downloads queued by the latest ObtainTips or ExtendTips
    last_rsp,          \* the last result Downloads::next yielded to the loop over the tips
    restart_cause,     \* why ChainSync::sync last went to the head of the 'sync loop
    cancelled,         \* whether the last pass of the head of the 'sync loop called cancel_all
    slept              \* the delay the syncer has slept since its last request

syncVars == <<sync_pc, lookahead_limit, in_flight, tips_len, started_once,
              genesis_in_state, hashes_left, round_requested, last_rsp,
              restart_cause, cancelled, slept>>

\* The tips of the chain syncer: obtain_tips, extend_tips and request_blocks of
\* zebrad/src/components/sync.rs
VARIABLES
    tips_pc,           \* where the round of obtain_tips or extend_tips is
    state_hashes,      \* the hashes of the blocks the state has, as obtain_tips finds them
    prospective_tips,  \* ChainSync::prospective_tips
    taken_tips,        \* the tips extend_tips took and has still to extend
    tip,               \* the tip extend_tips is at, None outside of its loop
    responses,         \* the number of responses of the fan out still to come
    res,               \* the response the loop over the responses is at, None outside
    download_set,      \* the local of obtain_tips and of extend_tips
    blocks_iter,       \* the iterator of request_blocks over the download set
    requested,         \* the hashes download_and_verify was called with, in order
    pushed_lengths     \* the lengths the round has pushed to recent_syncs, in order

tipsVars == <<tips_pc, state_hashes, prospective_tips, taken_tips, tip, responses,
              res, download_set, blocks_iter, requested, pushed_lengths>>

\* The peer Client: zebra-network/src/peer/client.rs, peer/client/tests.rs
VARIABLES
    client,             \* whether the Client is alive, dropped or panicked
    client_error_slot,  \* Client::error_slot, shared with the handle of the tests
    server_tx_closed,   \* whether the Client has closed Client::server_tx
    requests_queued,    \* the requests in the channel from server_tx to request_receiver
    request_receiver,   \* MockedClientHandle::request_receiver: open, closed or dropped
    shutdown_tx,        \* whether Client::shutdown_tx is Some
    shutdown_receiver,  \* MockedClientHandle::shutdown_receiver: waiting, cancelled or dropped
    connection_task,    \* Client::connection_task: running, exited or panicked
    heartbeat_task,     \* Client::heartbeat_task: running, exited or panicked
    ready_ret           \* what Client::poll_ready returned, if it was the last step

clientVars == <<client, client_error_slot, server_tx_closed, requests_queued,
                request_receiver, shutdown_tx, shutdown_receiver, connection_task,
                heartbeat_task, ready_ret>>

\* The peer Connection: zebra-network/src/peer/connection.rs,
\* peer/connection/tests.rs
VARIABLES
    conn_state,         \* Connection::state: AwaitingRequest, AwaitingResponse or Failed
    started_failed,     \* whether the connection was in State::Failed before run
    conn_error_slot,    \* Connection::error_slot, shared with the test
    client_tx,          \* the sender of client requests the test holds: open, closed or dropped
    client_rx_closed,   \* whether Connection::client_rx is closed or dropped
    client_requests,    \* the requests in the channel from client_tx to client_rx
    requests_sent,      \* the requests sent into client_tx so far
    peer_inbound_tx,    \* the sender of peer messages the test holds: open, closed or dropped
    peer_rx_closed,     \* whether the peer_rx stream of run is closed or dropped
    peer_message,       \* the message in the channel to peer_rx, None if it is empty
    messages_sent,      \* the messages sent into peer_inbound_tx so far
    run,                \* the future of Connection::run: created, pending, returned or dropped
    peer_outbound,      \* the messages written to Connection::peer_tx
    inbound_requests    \* the requests Connection::svc was called with

connVars == <<conn_state, started_failed, conn_error_slot, client_tx, client_rx_closed,
              client_requests, requests_sent, peer_inbound_tx, peer_rx_closed,
              peer_message, messages_sent, run, peer_outbound, inbound_requests>>

\* The minimum peer version: zebra-network/src/peer/minimum_peer_version.rs,
\* peer/minimum_peer_version/tests.rs
VARIABLES
    mpv_network,        \* MinimumPeerVersion::network, None before new()
    best_tip_height,    \* the value of the watch channel of MockChainTip
    current_minimum,    \* MinimumPeerVersion::current_minimum
    has_changed,        \* MinimumPeerVersion::has_changed
    current_ret,        \* what current() returned, if it was the last step
    changed_ret,        \* what changed() returned, if it was the last step
    reported_minimum,   \* the minimum in force at the previous changed() call, None before it
    height_sent         \* whether a height was sent since the previous changed() call

mpvVars == <<mpv_network, best_tip_height, current_minimum, has_changed, current_ret,
             changed_ret, reported_minimum, height_sent>>

\* addrv2 entries: zebra-network/src/protocol/external/addr/v2.rs
VARIABLES
    reader,             \* the entry zcash_deserialize was given to read, None before the call
    addr_v2,            \* what AddrV2::zcash_deserialize returned, None before the call
    meta_addr           \* the Option<MetaAddr> the AddrV2 was converted into, if it was

addrV2Vars == <<reader, addr_v2, meta_addr>>

\* The mempool crawler: zebrad/src/components/mempool/crawler.rs
VARIABLES
    crawler_pc,         \* where Crawler::run is: crawl, responses, sleep or failed
    requests,           \* the peer requests of crawl_transactions still to be answered
    received_ids,       \* the transaction IDs the crawler has received from peers
    tx_downloads        \* the transaction IDs queued to be downloaded and verified

crawlerVars == <<crawler_pc, requests, received_ids, tx_downloads>>

\* One round of obtain_tips or extend_tips run on the same responses in both
\* orders of arrival: zebrad/src/components/sync.rs
VARIABLES
    arrived,            \* the responses of the fan out, in one order of arrival
    round_kind,         \* the round that was run: none, obtain_tips or extend_tips
    round_in_order,     \* prospective tips and download set left by that order
    round_reversed      \* prospective tips and download set left by the other order

orderVars == <<arrived, round_kind, round_in_order, round_reversed>>

\* The PeerDiscoverer: zebra-network/src/discoverer.rs
VARIABLES
    disc_pc,                 \* where the PeerDiscoverer is: new, idle, forwarding, panicked
    after_end,               \* what discovered_peers answers a poll after its end
    received,                \* the pairs discovered_peers has yielded, in order
    source_ended,            \* whether discovered_peers has returned None
    polled_after_end,        \* whether discovered_peers was polled after that
    discovery_event_sender,  \* PeerDiscoverer::discovery_event_sender is Some
    discovery_events,        \* the events in the channel to the load tracker
    yielded,                 \* the events PeerDiscoverer::poll_next has returned
    yielded_none             \* whether PeerDiscoverer::poll_next has returned None

discVars == <<disc_pc, after_end, received, source_ended, polled_after_end,
              discovery_event_sender, discovery_events, yielded, yielded_none>>

\* The BestTipHeightReceiver: zebra-state/src/best_tip_height_receiver.rs
VARIABLES
    finalized_channel,       \* the value of the finalized watch channel
    non_finalized_channel,   \* the value of the non-finalized watch channel
    receiver_pc,             \* where best_tip_height is: idle, borrowed or returned
    non_finalized_guard,     \* what the borrow guard of the non-finalized channel shows
    finalized_at_borrow,     \* the finalized value when that guard was taken
    finalized_read,          \* the finalized value best_tip_height has read, if it has
    non_finalized_at_read,   \* the non-finalized value at the instant of that read
    best_tip                 \* what best_tip_height has returned, if it has

recvVars == <<finalized_channel, non_finalized_channel, receiver_pc, non_finalized_guard,
              finalized_at_borrow, finalized_read, non_finalized_at_read, best_tip>>

vars == <<memVars, poolVars, tipVars, slotVars, addrVars, syncVars, tipsVars, clientVars, connVars, mpvVars, addrV2Vars, crawlerVars, orderVars, discVars, recvVars>>

notMem == <<poolVars, tipVars, slotVars, addrVars, syncVars, tipsVars, clientVars, connVars, mpvVars, addrV2Vars, crawlerVars, orderVars, discVars, recvVars>>

notTip == <<memVars, poolVars, slotVars, addrVars, syncVars, tipsVars, clientVars, connVars, mpvVars, addrV2Vars, crawlerVars, orderVars, discVars, recvVars>>

notSlot == <<memVars, poolVars, tipVars, addrVars, syncVars, tipsVars, clientVars, connVars, mpvVars, addrV2Vars, crawlerVars, orderVars, discVars, recvVars>>

notAddr == <<memVars, poolVars, tipVars, slotVars, syncVars, tipsVars, clientVars, connVars, mpvVars, addrV2Vars, crawlerVars, orderVars, discVars, recvVars>>

notSync == <<memVars, poolVars, tipVars, slotVars, addrVars, tipsVars, clientVars, connVars, mpvVars, addrV2Vars, crawlerVars, orderVars, discVars, recvVars>>

notTips == <<memVars, poolVars, tipVars, slotVars, addrVars, syncVars, clientVars, connVars, mpvVars, addrV2Vars, crawlerVars, orderVars, discVars, recvVars>>

notClient == <<memVars, poolVars, tipVars, slotVars, addrVars, syncVars, tipsVars, connVars, mpvVars, addrV2Vars, crawlerVars, orderVars, discVars, recvVars>>

notConn == <<memVars, poolVars, tipVars, slotVars, addrVars, syncVars, tipsVars, clientVars, mpvVars, addrV2Vars, crawlerVars, orderVars, discVars, recvVars>>

notMpv == <<memVars, poolVars, tipVars, slotVars, addrVars, syncVars, tipsVars, clientVars, connVars, addrV2Vars, crawlerVars, orderVars, discVars, recvVars>>

notAddrV2 == <<memVars, poolVars, tipVars, slotVars, addrVars, syncVars, tipsVars, clientVars, connVars, mpvVars, crawlerVars, orderVars, discVars, recvVars>>

notCrawler == <<memVars, poolVars, tipVars, slotVars, addrVars, syncVars, tipsVars, clientVars, connVars, mpvVars, addrV2Vars, orderVars, discVars, recvVars>>

notOrder == <<memVars, poolVars, tipVars, slotVars, addrVars, syncVars, tipsVars, clientVars, connVars, mpvVars, addrV2Vars, crawlerVars, discVars, recvVars>>

notTipsOrder == <<memVars, poolVars, tipVars, slotVars, addrVars, syncVars, clientVars, connVars, mpvVars, addrV2Vars, crawlerVars, discVars, recvVars>>

notDisc == <<memVars, poolVars, tipVars, slotVars, addrVars, syncVars, tipsVars, clientVars, connVars, mpvVars, addrV2Vars, crawlerVars, orderVars, recvVars>>

notRecv == <<memVars, poolVars, tipVars, slotVars, addrVars, syncVars, tipsVars, clientVars, connVars, mpvVars, addrV2Vars, crawlerVars, orderVars, discVars>>

\* What the mempool service leaves alone: it has the storage.
notPool == <<tipVars, slotVars, addrVars, syncVars, tipsVars, clientVars, connVars, mpvVars, addrV2Vars, crawlerVars, orderVars, discVars, recvVars>>

\* The outpoints and the nullifiers.  The storage only compares them, so one
\* outpoint and one nullifier of each pool are enough for transactions to
\* overlap, and for a transaction to list the same one twice.
Outputs == {"o"}

\* An unmined transaction, as far as the storage looks at it: the outpoints it
\* spends and the nullifiers it reveals, in the order the transaction lists
\* them.  The id of a transaction is a hash of its contents, so a transaction
\* is its own id.
UnminedTx ==
    {tx \in [inputs: SeqsUpTo(Outputs, MaxSpends),
             sprout: SeqsUpTo(Outputs, MaxSpends),
             sapling: SeqsUpTo(Outputs, MaxSpends),
             orchard: SeqsUpTo(Outputs, MaxSpends)] :
        Len(tx.inputs) + Len(tx.sprout) + Len(tx.sapling) + Len(tx.orchard) <= MaxSpends}

\* The rejection reasons Storage records.
State == {"SpendConflict", "Excess"}

NoCall == [op |-> "none", tx |-> None, result |-> "none"]

\* Storage::default()
StorageDefault ==
    /\ verified = <<>>
    /\ rejected = <<>>
    /\ spent_outpoints = {}
    /\ sprout_nullifiers = {}
    /\ sapling_nullifiers = {}
    /\ orchard_nullifiers = {}

InitStorage ==
    /\ StorageDefault
    /\ ret = NoCall
    /\ prevTx = None
    /\ sinceEmpty = <<>>
    /\ nops = 0

\* Storage::remove_from_set
remove_from_set(set, items) == set \ Range(items)

\* Storage::has_spend_conflicts: the outputs are inserted one by one; at the
\* first one that is already there, the ones this call inserted are removed.
RECURSIVE has_spend_conflicts_from(_, _, _, _)
has_spend_conflicts_from(existing_outputs, new_outputs, i, inserted_outputs) ==
    IF i > Len(new_outputs)
    THEN [conflict |-> FALSE, set |-> existing_outputs]
    ELSE IF new_outputs[i] \notin existing_outputs
         THEN has_spend_conflicts_from(existing_outputs \cup {new_outputs[i]}, new_outputs,
                                       i + 1, Append(inserted_outputs, new_outputs[i]))
         ELSE [conflict |-> TRUE, set |-> remove_from_set(existing_outputs, inserted_outputs)]

\* has_spend_conflicts without the conflict check: every output is inserted.
has_spend_conflicts_unchecked(existing_outputs, new_outputs) ==
    [conflict |-> FALSE, set |-> existing_outputs \cup Range(new_outputs)]

has_spend_conflicts(existing_outputs, new_outputs) ==
    has_spend_conflicts_from(existing_outputs, new_outputs, 1, <<>>)

\* check_spend_conflicts without the check of the Orchard nullifiers.
check_spend_conflicts_no_orchard(tx) ==
    LET o == has_spend_conflicts(spent_outpoints, tx.inputs)
        sp == has_spend_conflicts(sprout_nullifiers, tx.sprout)
        sa == has_spend_conflicts(sapling_nullifiers, tx.sapling)
    IN  [conflict |-> o.conflict \/ sp.conflict \/ sa.conflict,
         outpoints |-> o.set, sprout |-> sp.set, sapling |-> sa.set,
         orchard |-> orchard_nullifiers \cup Range(tx.orchard)]

\* Storage::check_spend_conflicts: the four sets are checked in turn, and the
\* check stops at the first set with a conflict (||).
check_spend_conflicts(tx) ==
    LET o == has_spend_conflicts(spent_outpoints, tx.inputs)
        sp == has_spend_conflicts(sprout_nullifiers, tx.sprout)
        sa == has_spend_conflicts(sapling_nullifiers, tx.sapling)
        or == has_spend_conflicts(orchard_nullifiers, tx.orchard)
    IN  IF o.conflict
        THEN [conflict |-> TRUE, outpoints |-> o.set, sprout |-> sprout_nullifiers,
              sapling |-> sapling_nullifiers, orchard |-> orchard_nullifiers]
        ELSE IF sp.conflict
        THEN [conflict |-> TRUE, outpoints |-> o.set, sprout |-> sp.set,
              sapling |-> sapling_nullifiers, orchard |-> orchard_nullifiers]
        ELSE IF sa.conflict
        THEN [conflict |-> TRUE, outpoints |-> o.set, sprout |-> sp.set,
              sapling |-> sa.set, orchard |-> orchard_nullifiers]
        ELSE [conflict |-> or.conflict, outpoints |-> o.set, sprout |-> sp.set,
              sapling |-> sa.set, orchard |-> or.set]

\* MempoolErrorOf that answers Excess whatever the cached state is.
MempoolErrorOf_excess(state) == "Excess"

\* The error Storage::insert returns for a cached rejection.
MempoolErrorOf(state) ==
    IF state = "SpendConflict" THEN "SpendConflict" ELSE "Excess"

\* f with key k set to v (HashMap::insert)
MapInsert(f, k, v) == [x \in (DOMAIN f) \cup {k} |-> IF x = k THEN v ELSE f[x]]

\* An eviction that takes the newest transactions instead of the oldest.
Evicted_newest(pushed) == {pushed[i] : i \in 1..(Len(pushed) - MEMPOOL_SIZE)}

\* The transactions push_front(tx) leaves past MEMPOOL_SIZE, which drain removes.
Evicted(pushed) == {pushed[i] : i \in (MEMPOOL_SIZE + 1)..Len(pushed)}

\* The state the evicted transactions are tracked as.
EvictedState == "Excess"

\* Retained without the drain: the pool keeps growing.
Retained_all(pushed) == pushed

\* What verified.drain(MEMPOOL_SIZE..) leaves, when the pool is over its size.
Retained(pushed) ==
    IF Len(pushed) > MEMPOOL_SIZE THEN SubSeq(pushed, 1, MEMPOOL_SIZE) ELSE pushed

\* The history variables after a call.  sinceEmpty keeps the first two calls,
\* and a third entry says that more were made.
Called(op, tx, result) ==
    /\ ret' = [op |-> op, tx |-> tx, result |-> result]
    /\ prevTx' = IF ret.op = "insert" THEN ret.tx ELSE None
    /\ sinceEmpty' = IF op = "clear" THEN <<>>
                     ELSE IF Len(sinceEmpty) < 2
                          THEN Append(sinceEmpty, [op |-> op, tx |-> tx, result |-> result])
                     ELSE IF Len(sinceEmpty) = 2
                          THEN Append(sinceEmpty, [op |-> "more", tx |-> None, result |-> ""])
                          ELSE sinceEmpty
    /\ nops' = nops + 1

Storage == <<verified, rejected, spent_outpoints, sprout_nullifiers,
             sapling_nullifiers, orchard_nullifiers>>

\* Storage::insert, when the id is in the rejection cache
insert_rejected(tx) ==
    /\ Called("insert", Some(tx), MempoolErrorOf(rejected[tx]))
    /\ UNCHANGED Storage

\* insert_in_mempool that moves the transaction to the front (a refresh).
insert_in_mempool_refresh(tx) ==
    /\ Called("insert", Some(tx), "InMempool")
    /\ verified' = <<tx>> \o SelectSeq(verified, LAMBDA t : t # tx)
    /\ UNCHANGED <<rejected, spent_outpoints, sprout_nullifiers,
                   sapling_nullifiers, orchard_nullifiers>>

\* Storage::insert, when the transaction is already in the mempool
insert_in_mempool(tx) ==
    /\ Called("insert", Some(tx), "InMempool")
    /\ UNCHANGED Storage

\* An insert that answers a spend conflict it finds with the cached reason.
SpendConflictError_cached == "SpendConflict"

\* The error Storage::insert returns when it finds a spend conflict
SpendConflictError == "Rejected"

\* Storage::insert, for a transaction that is neither rejected nor verified
insert_new(tx) ==
    LET c == check_spend_conflicts(tx)
        pushed == <<tx>> \o verified
    IN  /\ spent_outpoints' = c.outpoints
        /\ sprout_nullifiers' = c.sprout
        /\ sapling_nullifiers' = c.sapling
        /\ orchard_nullifiers' = c.orchard
        /\ IF c.conflict
           THEN /\ rejected' = MapInsert(rejected, tx, "SpendConflict")
                /\ verified' = verified
                /\ Called("insert", Some(tx), SpendConflictError)
           ELSE /\ verified' = Retained(pushed)
                /\ rejected' = [x \in (DOMAIN rejected) \cup Evicted(pushed) |->
                                  IF x \in Evicted(pushed) THEN EvictedState ELSE rejected[x]]
                /\ Called("insert", Some(tx), "Ok")

\* Storage::insert: what it does to the storage
insert_tx(tx) ==
    IF tx \in DOMAIN rejected
    THEN insert_rejected(tx)
    ELSE IF tx \in Range(verified)
         THEN insert_in_mempool(tx)
         ELSE insert_new(tx)

\* Storage::insert
insert(tx) ==
    /\ nops < MaxOps
    /\ UNCHANGED notMem
    /\ insert_tx(tx)

\* Storage::remove_outputs
remove_outputs(tx) ==
    /\ spent_outpoints' = remove_from_set(spent_outpoints, tx.inputs)
    /\ sprout_nullifiers' = remove_from_set(sprout_nullifiers, tx.sprout)
    /\ sapling_nullifiers' = remove_from_set(sapling_nullifiers, tx.sapling)
    /\ orchard_nullifiers' = remove_from_set(orchard_nullifiers, tx.orchard)

\* A remove that also forgets the rejections.
remove_clears_rejected(txid) ==
    /\ nops < MaxOps
    /\ UNCHANGED notMem
    /\ IF txid \in Range(verified)
       THEN /\ verified' = SelectSeq(verified, LAMBDA tx : tx # txid)
            /\ remove_outputs(txid)
            /\ Called("remove", Some(txid), "Some")
       ELSE /\ UNCHANGED <<verified, spent_outpoints, sprout_nullifiers,
                           sapling_nullifiers, orchard_nullifiers>>
            /\ Called("remove", Some(txid), "None")
    /\ rejected' = <<>>

\* Storage::remove
remove(txid) ==
    /\ nops < MaxOps
    /\ UNCHANGED notMem
    /\ IF txid \in Range(verified)
       THEN /\ verified' = SelectSeq(verified, LAMBDA tx : tx # txid)
            /\ remove_outputs(txid)
            /\ Called("remove", Some(txid), "Some")
       ELSE /\ UNCHANGED <<verified, spent_outpoints, sprout_nullifiers,
                           sapling_nullifiers, orchard_nullifiers>>
            /\ Called("remove", Some(txid), "None")
    /\ UNCHANGED rejected

\* Storage::clear: what it does to the storage
clear_storage ==
    /\ verified' = <<>>
    /\ rejected' = <<>>
    /\ spent_outpoints' = {}
    /\ sprout_nullifiers' = {}
    /\ sapling_nullifiers' = {}
    /\ orchard_nullifiers' = {}
    /\ Called("clear", None, "none")

\* Storage::clear
clear ==
    /\ nops < MaxOps
    /\ UNCHANGED notMem
    /\ clear_storage

----------------------------------------------------------------------------
(* Mempool service: zebrad/src/components/mempool.rs                       *)

\* Mempool::new, with a syncer that has not got close to the tip yet
InitMempool ==
    /\ chain_reset = FALSE
    /\ close_to_tip = FALSE
    /\ tx_ready = <<>>
    /\ pool_pc = "idle"
    /\ syncing_run = FALSE
    /\ ndownloads = 0

\* The chain tip is reset: ChainTipChange::has_reset will report it once.
tip_reset ==
    /\ ~chain_reset
    /\ chain_reset' = TRUE
    /\ UNCHANGED <<close_to_tip, tx_ready, pool_pc, syncing_run, ndownloads>>
    /\ UNCHANGED memVars
    /\ UNCHANGED notPool

\* The syncer gets close to the tip, or falls behind it.
sync_status_changes ==
    /\ close_to_tip' = ~close_to_tip
    /\ syncing_run' = (syncing_run /\ close_to_tip)
    /\ UNCHANGED <<chain_reset, tx_ready, pool_pc, ndownloads>>
    /\ UNCHANGED memVars
    /\ UNCHANGED notPool

\* A download and verify task of tx_downloads finishes: r is Some(tx) for
\* Ok(tx) and None for an error.
download_finishes(r) ==
    /\ ndownloads < MaxDownloads
    /\ ndownloads' = ndownloads + 1
    /\ tx_ready' = Append(tx_ready, r)
    /\ UNCHANGED <<chain_reset, close_to_tip, pool_pc, syncing_run>>
    /\ UNCHANGED memVars
    /\ UNCHANGED notPool

\* A mempool that is only cleared by a chain reset.
should_clear_storage_on_reset == chain_reset

\* Mempool::should_clear_storage
should_clear_storage == chain_reset \/ ~close_to_tip

\* Mempool::poll_ready: the call of maybe_clear_storage.  has_reset takes the
\* reset it reports.
maybe_clear_storage ==
    /\ pool_pc = "idle"
    /\ nops < MaxOps
    /\ IF should_clear_storage
       THEN clear_storage
       ELSE UNCHANGED memVars
    /\ chain_reset' = FALSE
    /\ syncing_run' = ~close_to_tip
    /\ pool_pc' = "poll_next"
    /\ UNCHANGED <<close_to_tip, tx_ready, ndownloads>>
    /\ UNCHANGED notPool

\* Mempool::poll_ready: the loop over the finished downloads, and the return
poll_next ==
    /\ pool_pc = "poll_next"
    /\ IF tx_ready # <<>>
       THEN /\ tx_ready' = Tail(tx_ready)
            /\ UNCHANGED pool_pc
            /\ IF Head(tx_ready) # None
               THEN \E tx \in Head(tx_ready) : insert_tx(tx)
               ELSE UNCHANGED memVars
       ELSE /\ pool_pc' = "idle"
            /\ UNCHANGED tx_ready
            /\ UNCHANGED memVars
    /\ UNCHANGED <<chain_reset, close_to_tip, syncing_run, ndownloads>>
    /\ UNCHANGED notPool

----------------------------------------------------------------------------
(* Best tip height: zebra-state/src/service/best_tip_height.rs             *)

Height == 0..MaxHeight

OptionHeight == {None} \cup {Some(h) : h \in Height}

Max(a, b) == IF a >= b THEN a ELSE b

\* BestTipHeight::new
InitBestTipHeight ==
    /\ finalized = 0
    /\ non_finalized = None
    /\ sender = 0
    /\ active_value = 0
    /\ sent = FALSE
    /\ tipLog = <<>>
    /\ published = <<>>

\* new_value that prefers the non-finalized height, whatever the finalized one.
new_value_unwrap_or(f, n) == IF n = None THEN f ELSE CHOOSE h \in n : TRUE

\* new_value that takes the lower of the two heights.
new_value_lowest(f, n) ==
    IF n = None THEN f ELSE -Max(-f, -(CHOOSE h \in n : TRUE))

\* The new_value of BestTipHeight::update
new_value(f, n) ==
    IF n = None THEN f ELSE Max(f, CHOOSE h \in n : TRUE)

\* The calls since new() that are logged, with the values they sent.
LoggedCalls == 4

\* watch::Sender::send, as the receivers see it
Publish(value) ==
    published' = IF Len(tipLog) < LoggedCalls THEN Append(published, value)
                 ELSE published

\* An update that sends the new value whether it differs or not.
update_always_sends(f, n) ==
    /\ sender' = new_value(f, n)
    /\ active_value' = new_value(f, n)
    /\ sent' = TRUE
    /\ Publish(new_value(f, n))

\* BestTipHeight::update, with the fields as they are after the assignment
update(f, n) ==
    IF new_value(f, n) # active_value
    THEN /\ sender' = new_value(f, n)
         /\ active_value' = new_value(f, n)
         /\ sent' = TRUE
         /\ Publish(new_value(f, n))
    ELSE /\ UNCHANGED <<sender, active_value, published>>
         /\ sent' = FALSE

TipCalled(op, arg) ==
    tipLog' = IF Len(tipLog) < LoggedCalls THEN Append(tipLog, [op |-> op, arg |-> arg]) ELSE tipLog

\* BestTipHeight::set_finalized_height
set_finalized_height(new_height) ==
    /\ IF finalized # new_height
       THEN /\ finalized' = new_height
            /\ update(new_height, non_finalized)
       ELSE /\ UNCHANGED <<finalized, sender, active_value, published>>
            /\ sent' = FALSE
    /\ UNCHANGED non_finalized
    /\ TipCalled("set_finalized_height", Some(new_height))
    /\ UNCHANGED notTip

\* BestTipHeight::set_best_non_finalized_height
set_best_non_finalized_height(new_height) ==
    /\ IF non_finalized # new_height
       THEN /\ non_finalized' = new_height
            /\ update(finalized, new_height)
       ELSE /\ UNCHANGED <<non_finalized, sender, active_value, published>>
            /\ sent' = FALSE
    /\ UNCHANGED finalized
    /\ TipCalled("set_best_non_finalized_height", new_height)
    /\ UNCHANGED notTip

----------------------------------------------------------------------------
(* Peer error slot: zebra-network/src/peer/error.rs                        *)

PeerError ==
    {"ConnectionClosed", "ConnectionDropped", "HeartbeatTaskExited",
     "ClientRequestTimeout", "Overloaded", "DuplicateHandshake"}

\* The holders of a clone of the connection's ErrorSlot.
Holders == {"Client", "Connection", "Heartbeat"}

NoSlotCall == [op |-> "NoCall", holder |-> "", e |-> None, result |-> "", value |-> None]

\* ErrorSlot::default
InitErrorSlot ==
    /\ error_slot = None
    /\ slot_ret = NoSlotCall
    /\ observed = [h \in Holders |-> None]

UpdateCalled(h, e, result) ==
    slot_ret' = [op |-> "try_update_error", holder |-> h, e |-> Some(e),
                 result |-> result, value |-> None]

\* A slot where the last writer wins.
try_update_error_overwrite(h, e) ==
    /\ error_slot' = Some(e)
    /\ UpdateCalled(h, e, "Ok")
    /\ UNCHANGED observed
    /\ UNCHANGED notSlot

\* ErrorSlot::try_update_error
try_update_error(h, e) ==
    /\ IF error_slot # None
       THEN /\ UNCHANGED error_slot
            /\ UpdateCalled(h, e, "AlreadyErrored")
       ELSE /\ error_slot' = Some(e)
            /\ UpdateCalled(h, e, "Ok")
    /\ UNCHANGED observed
    /\ UNCHANGED notSlot

\* ErrorSlot::try_get_error
try_get_error(h) ==
    /\ observed' = [observed EXCEPT ![h] = error_slot]
    /\ slot_ret' = [op |-> "try_get_error", holder |-> h, e |-> None,
                    result |-> "", value |-> error_slot]
    /\ UNCHANGED error_slot
    /\ UNCHANGED notSlot

----------------------------------------------------------------------------
(* Gossiped address validation:                                            *)
(* zebra-network/src/peer_set/candidate_set.rs                             *)

\* DateTime32 values.
Time == 0..MaxTime

InitAddrs ==
    /\ gossiped_peers = <<>>
    /\ last_seen_limit = 0
    /\ validated_peers = None

\* u32::wrapping_sub, on the times of the model.
checked_sub_wrapping(a, b) == Some((a - b) % (MaxTime + 1))

\* u32::checked_sub
checked_sub(a, b) == IF a >= b THEN Some(a - b) ELSE None

Newest(peers) == CHOOSE t \in Range(peers) : \A u \in Range(peers) : u <= t

AtMost(limit, t) == t <= limit

\* An offset that stops at time zero where the subtraction underflows.
apply_offset_saturating(peers, offset) ==
    [i \in 1..Len(peers) |-> IF peers[i] >= offset THEN peers[i] - offset ELSE 0]

\* The batch with offset subtracted from every last_seen time; empty when a
\* subtraction underflows.
apply_offset(peers, offset) ==
    IF \E i \in 1..Len(peers) : checked_sub(peers[i], offset) = None
    THEN <<>>
    ELSE [i \in 1..Len(peers) |-> peers[i] - offset]

\* A validation that yields the batch as it was gossiped.
validate_addrs_as_gossiped(peers, limit) == peers

\* validate_addrs
validate_addrs(peers, limit) ==
    LET offset_peers ==
            IF peers # <<>> /\ Newest(peers) > limit
            THEN apply_offset(peers, Newest(peers) - limit)
            ELSE peers
    IN  SelectSeq(offset_peers, LAMBDA t : AtMost(limit, t))

\* A Peers response arrives: CandidateSet::update hands it to validate_addrs.
receive_addrs(peers, limit) ==
    /\ gossiped_peers' = peers
    /\ last_seen_limit' = limit
    /\ validated_peers' = None
    /\ UNCHANGED notAddr

call_validate_addrs ==
    /\ validated_peers = None
    /\ validated_peers' = Some(validate_addrs(gossiped_peers, last_seen_limit))
    /\ UNCHANGED <<gossiped_peers, last_seen_limit>>
    /\ UNCHANGED notAddr

----------------------------------------------------------------------------
(* Chain syncer: zebrad/src/components/sync.rs                             *)

\* The phrases should_restart_sync looks for in the Debug text of an error.
Phrases == {"block is already committed to the state", "NotFound"}

\* BlockDownloadVerifyError: the variant, for Invalid the VerifyChainError in
\* it, and for the errors that box their source the phrases the Debug text of
\* the source has.
BlockDownloadVerifyError ==
    [variant : {"Invalid"},
     inner : {"Checkpoint::AlreadyVerified", "Checkpoint::Other",
              "Block::Block::AlreadyInChain", "Block::Block::Other", "Block::Other"},
     source : {{}}]
    \cup [variant : {"Invalid"}, inner : {"Block::Commit"}, source : SUBSET Phrases]
    \cup [variant : {"DownloadFailed"}, inner : {""}, source : SUBSET Phrases]
    \cup [variant : {"CancelledDuringDownload", "CancelledDuringVerification",
                     "BehindTipHeightLimit", "AboveLookaheadHeightLimit"},
          inner : {""}, source : {{}}]

\* Ok(hash)
Ok == [variant |-> "Ok", inner |-> "", source |-> {}]

NoResponse == [variant |-> "None", inner |-> "", source |-> {}]

\* What Downloads::next yields: Ok(hash) or Err(e).
DownloadResults == {Ok} \cup BlockDownloadVerifyError

\* should_restart_sync that takes any error that mentions NotFound as a
\* block that was not found.
should_restart_sync_by_text(e) ==
    ~(\/ e.variant = "Invalid" /\ e.inner = "Checkpoint::AlreadyVerified"
      \/ e.variant = "Invalid" /\ e.inner = "Block::Block::AlreadyInChain"
      \/ e.variant \in {"CancelledDuringDownload", "CancelledDuringVerification"}
      \/ e.variant = "BehindTipHeightLimit"
      \/ "block is already committed to the state" \in e.source
      \/ "NotFound" \in e.source)

\* ChainSync::should_restart_sync: the arms of the match, in order
should_restart_sync(e) ==
    IF e.variant = "Invalid" /\ e.inner = "Checkpoint::AlreadyVerified" THEN FALSE
    ELSE IF e.variant = "Invalid" /\ e.inner = "Block::Block::AlreadyInChain" THEN FALSE
    ELSE IF e.variant \in {"CancelledDuringDownload", "CancelledDuringVerification"}
         THEN FALSE
    ELSE IF e.variant = "BehindTipHeightLimit" THEN FALSE
    ELSE IF /\ e.variant = "Invalid" /\ e.inner = "Block::Commit"
            /\ "block is already committed to the state" \in e.source
         THEN FALSE
    ELSE IF e.variant = "DownloadFailed" /\ "NotFound" \in e.source THEN FALSE
    ELSE TRUE

InitChainSync ==
    /\ sync_pc = "new"
    /\ lookahead_limit = 0
    /\ in_flight = 0
    /\ tips_len = 0
    /\ started_once = FALSE
    /\ genesis_in_state = FALSE
    /\ hashes_left = 0
    /\ round_requested = 0
    /\ last_rsp = NoResponse
    /\ restart_cause = ""
    /\ cancelled = FALSE
    /\ slept = ""

\* ChainSync::new, and the call of ChainSync::sync: the state has the genesis
\* block or not
new(limit, has_genesis) ==
    /\ sync_pc = "new"
    /\ lookahead_limit' = limit
    /\ genesis_in_state' = has_genesis
    /\ sync_pc' = "request_genesis"
    /\ UNCHANGED <<in_flight, tips_len, started_once, hashes_left, round_requested>>
    /\ UNCHANGED last_rsp
    /\ UNCHANGED <<restart_cause, cancelled, slept>>
    /\ UNCHANGED notSync

\* Downloads::download_and_verify, when it queues the download
download_and_verify == in_flight' = in_flight + 1

\* Downloads::next, which takes a finished download off the in-flight ones
next_download == in_flight' = in_flight - 1

\* Downloads::cancel_all
cancel_all == in_flight' = 0

\* ChainSync::request_genesis: the loop condition and the download request.
\* state_contains and download_and_verify can fail, and then sync returns.
request_genesis(ok) ==
    /\ sync_pc = "request_genesis"
    /\ IF ~ok
       THEN /\ sync_pc' = "returned"
            /\ UNCHANGED in_flight
       ELSE IF genesis_in_state
       THEN /\ sync_pc' = "sync"
            /\ UNCHANGED in_flight
       ELSE /\ download_and_verify
            /\ sync_pc' = "genesis_next"
    /\ UNCHANGED <<lookahead_limit, tips_len, started_once, genesis_in_state,
                   hashes_left, round_requested>>
    /\ UNCHANGED last_rsp
    /\ restart_cause' = IF ok /\ genesis_in_state THEN "start" ELSE restart_cause
    /\ slept' = IF ok /\ ~genesis_in_state THEN "" ELSE slept
    /\ UNCHANGED cancelled
    /\ UNCHANGED notSync

\* A request_genesis that returns the error of a failed genesis download.
genesis_next_gives_up(rsp) ==
    /\ sync_pc = "genesis_next"
    /\ next_download
    /\ genesis_in_state' = (rsp = Ok)
    /\ sync_pc' = IF rsp = Ok THEN "request_genesis" ELSE "returned"
    /\ UNCHANGED <<lookahead_limit, tips_len, started_once, hashes_left,
                   round_requested>>
    /\ UNCHANGED last_rsp
    /\ UNCHANGED slept
    /\ UNCHANGED <<restart_cause, cancelled>>
    /\ UNCHANGED notSync

\* ChainSync::request_genesis: the result of the genesis download
genesis_next(rsp) ==
    /\ sync_pc = "genesis_next"
    /\ next_download
    /\ genesis_in_state' = (rsp = Ok)
    /\ sync_pc' = "request_genesis"
    /\ UNCHANGED <<lookahead_limit, tips_len, started_once, hashes_left,
                   round_requested>>
    /\ UNCHANGED last_rsp
    /\ slept' = IF rsp = Ok THEN slept ELSE "GENESIS_TIMEOUT_RETRY"
    /\ UNCHANGED <<restart_cause, cancelled>>
    /\ UNCHANGED notSync

\* A restart that clears the tips and sleeps, and leaves the downloads going.
sync_restart_keep_downloads ==
    /\ sync_pc = "sync"
    /\ IF started_once
       THEN /\ tips_len' = 0
            /\ UNCHANGED <<in_flight, started_once>>
       ELSE /\ started_once' = TRUE
            /\ UNCHANGED <<tips_len, in_flight>>
    /\ sync_pc' = "obtain_tips"
    /\ UNCHANGED <<lookahead_limit, genesis_in_state, hashes_left, round_requested>>
    /\ UNCHANGED last_rsp
    /\ cancelled' = FALSE
    /\ slept' = IF started_once THEN "SYNC_RESTART_DELAY" ELSE slept
    /\ UNCHANGED restart_cause
    /\ UNCHANGED notSync

\* ChainSync::sync: the head of the 'sync loop
sync_restart ==
    /\ sync_pc = "sync"
    /\ IF started_once
       THEN /\ tips_len' = 0
            /\ cancel_all
            /\ UNCHANGED started_once
       ELSE /\ started_once' = TRUE
            /\ UNCHANGED <<tips_len, in_flight>>
    /\ sync_pc' = "obtain_tips"
    /\ UNCHANGED <<lookahead_limit, genesis_in_state, hashes_left, round_requested>>
    /\ UNCHANGED last_rsp
    /\ cancelled' = started_once
    /\ slept' = IF started_once THEN "SYNC_RESTART_DELAY" ELSE slept
    /\ UNCHANGED restart_cause
    /\ UNCHANGED notSync

\* ChainSync::obtain_tips up to its call of request_blocks: it fails, or it
\* leaves tips prospective tips and a download set of hashes hashes.
obtain_tips(ok, tips, hashes) ==
    /\ sync_pc = "obtain_tips"
    /\ tips_len' = tips
    /\ round_requested' = 0
    /\ IF ok
       THEN /\ hashes_left' = hashes
            /\ sync_pc' = "request_blocks"
       ELSE /\ hashes_left' = 0
            /\ sync_pc' = "sync"
    /\ UNCHANGED <<lookahead_limit, in_flight, started_once, genesis_in_state>>
    /\ UNCHANGED last_rsp
    /\ restart_cause' = IF ok THEN restart_cause ELSE "round failed"
    /\ slept' = ""
    /\ UNCHANGED cancelled
    /\ UNCHANGED notSync

\* ChainSync::request_blocks: one iteration of its loop, or its return
request_blocks(ok) ==
    /\ sync_pc = "request_blocks"
    /\ IF hashes_left = 0
       THEN /\ sync_pc' = "tips"
            /\ UNCHANGED <<in_flight, hashes_left, round_requested>>
       ELSE IF ok
       THEN /\ download_and_verify
            /\ hashes_left' = hashes_left - 1
            /\ round_requested' = round_requested + 1
            /\ UNCHANGED sync_pc
       ELSE /\ sync_pc' = "sync"
            /\ hashes_left' = 0
            /\ UNCHANGED <<in_flight, round_requested>>
    /\ UNCHANGED <<lookahead_limit, tips_len, started_once, genesis_in_state>>
    /\ UNCHANGED last_rsp
    /\ restart_cause' = IF hashes_left # 0 /\ ~ok THEN "round failed" ELSE restart_cause
    /\ UNCHANGED <<cancelled, slept>>
    /\ UNCHANGED notSync

\* ChainSync::sync: the condition of the loop over the prospective tips
tips_loop ==
    /\ sync_pc = "tips"
    /\ sync_pc' = IF tips_len # 0 THEN "poll" ELSE "sync"
    /\ UNCHANGED <<lookahead_limit, in_flight, tips_len, started_once,
                   genesis_in_state, hashes_left, round_requested>>
    /\ UNCHANGED last_rsp
    /\ restart_cause' = IF tips_len # 0 THEN restart_cause ELSE "tips exhausted"
    /\ UNCHANGED <<cancelled, slept>>
    /\ UNCHANGED notSync

\* ChainSync::sync: the loop over the downloads that are ready.  ready is
\* whether a download has finished, rsp is its result.
poll_downloads(ready, rsp) ==
    /\ sync_pc = "poll"
    /\ IF ready /\ in_flight > 0
       THEN /\ next_download
            /\ last_rsp' = rsp
            /\ sync_pc' = IF rsp # Ok /\ should_restart_sync(rsp) THEN "sync" ELSE "poll"
       ELSE /\ UNCHANGED <<in_flight, last_rsp>>
            /\ sync_pc' = "wait"
    /\ UNCHANGED <<lookahead_limit, tips_len, started_once, genesis_in_state,
                   hashes_left, round_requested>>
    /\ restart_cause' = IF sync_pc' = "sync" THEN "restart error" ELSE restart_cause
    /\ UNCHANGED <<cancelled, slept>>
    /\ UNCHANGED notSync

\* A syncer that never waits for pending blocks.
too_many_pending_never == FALSE

\* ChainSync::sync: the condition of the loop that waits for pending blocks
too_many_pending == in_flight > lookahead_limit

\* ChainSync::sync: the loop that waits while too many blocks are pending
wait_downloads(rsp) ==
    /\ sync_pc = "wait"
    /\ IF too_many_pending
       THEN /\ next_download
            /\ last_rsp' = rsp
            /\ sync_pc' = IF rsp # Ok /\ should_restart_sync(rsp) THEN "sync" ELSE "wait"
       ELSE /\ UNCHANGED <<in_flight, last_rsp>>
            /\ sync_pc' = "extend_tips"
    /\ UNCHANGED <<lookahead_limit, tips_len, started_once, genesis_in_state,
                   hashes_left, round_requested>>
    /\ restart_cause' = IF sync_pc' = "sync" THEN "restart error" ELSE restart_cause
    /\ UNCHANGED <<cancelled, slept>>
    /\ UNCHANGED notSync

\* ChainSync::extend_tips up to its call of request_blocks: it fails, or it
\* leaves tips prospective tips and a download set of hashes hashes.
extend_tips(ok, tips, hashes) ==
    /\ sync_pc = "extend_tips"
    /\ tips_len' = tips
    /\ round_requested' = 0
    /\ IF ok
       THEN /\ hashes_left' = hashes
            /\ sync_pc' = "request_blocks"
       ELSE /\ hashes_left' = 0
            /\ sync_pc' = "sync"
    /\ UNCHANGED <<lookahead_limit, in_flight, started_once, genesis_in_state>>
    /\ UNCHANGED last_rsp
    /\ restart_cause' = IF ok THEN restart_cause ELSE "round failed"
    /\ slept' = ""
    /\ UNCHANGED cancelled
    /\ UNCHANGED notSync

----------------------------------------------------------------------------
(* The tips of the chain syncer: ChainSync::obtain_tips, extend_tips and   *)
(* request_blocks of zebrad/src/components/sync.rs, hash by hash.          *)

\* The block hashes the peers and the state know of: H0 is the genesis block,
\* H1 and H2 are the blocks after it.
BlockHash == {"H0", "H1", "H2"}

\* The number of peers each FindBlocks request is sent to (3 in sync.rs; the
\* rounds of the model ask two peers).
FANOUT == 2

CheckedTip == [tip : BlockHash, expected_next : BlockHash]

\* What a FindBlocks request yields: Ok(BlockHashes(hashes)) or Err.
FindBlocksErr == [ok |-> FALSE, hashes |-> <<>>]

FindBlocksOk(s) == [ok |-> TRUE, hashes |-> s]

FindBlocksResponse ==
    {FindBlocksErr} \cup {FindBlocksOk(s) : s \in SeqsUpTo(BlockHash, MaxHashes)}

\* The syncer asks for tips when the state has the genesis block: the state
\* has the chain up to H0, up to H1 or up to H2.
StateHashes == {{"H0"}, {"H0", "H1"}, {"H0", "H1", "H2"}}

InitTips ==
    /\ tips_pc = "idle"
    /\ state_hashes = {}
    /\ prospective_tips = {}
    /\ taken_tips = {}
    /\ tip = None
    /\ responses = 0
    /\ res = None
    /\ download_set = <<>>
    /\ blocks_iter = <<>>
    /\ requested = <<>>
    /\ pushed_lengths = <<>>

\* The state service answering Depth(hash).
state_contains(hash) == hash \in state_hashes

\* [rest @ .., _last] => rest
drop_last(s) == SubSeq(s, 1, Len(s) - 1)

\* The index of the first hash the state does not contain, if there is one.
first_unknown(s) ==
    LET unknown == {i \in 1..Len(s) : ~state_contains(s[i])}
    IN  IF unknown = {} THEN None
        ELSE Some(CHOOSE i \in unknown : \A j \in unknown : i <= j)

\* A tip made of the last two hashes in the other order.
new_tip_swapped(unknown_hashes) ==
    IF Len(unknown_hashes) >= 2
    THEN Some([tip |-> unknown_hashes[Len(unknown_hashes)],
               expected_next |-> unknown_hashes[Len(unknown_hashes) - 1]])
    ELSE None

\* unknown_hashes.rchunks_exact(2).next(), as the CheckedTip made of it.
new_tip(unknown_hashes) ==
    IF Len(unknown_hashes) >= 2
    THEN Some([tip |-> unknown_hashes[Len(unknown_hashes) - 1],
               expected_next |-> unknown_hashes[Len(unknown_hashes)]])
    ELSE None

\* IndexSet::extend: the hashes the set does not have are appended in order.
RECURSIVE extend(_, _)
extend(set, s) ==
    IF s = <<>> THEN set
    ELSE extend(IF Head(s) \in Range(set) THEN set ELSE Append(set, Head(s)), Tail(s))

\* The part of a response ObtainTips goes on with: the hashes from the first
\* unknown one, the last hash of the response dropped.
obtain_unknown_hashes(s) ==
    IF s = <<>> THEN <<>>
    ELSE LET rest == drop_last(s)
             index == first_unknown(rest)
         IN  IF index = None THEN <<>>
             ELSE SubSeq(rest, CHOOSE i \in index : TRUE, Len(rest))

\* A match that keeps the expected hash with the hashes after it.
extend_rest_from_expected(t, s) ==
    IF Len(s) >= 1 /\ s[1] = t.expected_next THEN SubSeq(s, 1, Len(s))
    ELSE IF Len(s) >= 2 /\ s[2] = t.expected_next THEN SubSeq(s, 2, Len(s))
    ELSE <<>>

\* The match of extend_tips on the response: the hashes after the expected
\* one, which is the first or the second hash of the response.
extend_rest(t, s) ==
    IF Len(s) >= 1 /\ s[1] = t.expected_next THEN SubSeq(s, 2, Len(s))
    ELSE IF Len(s) >= 2 /\ s[2] = t.expected_next THEN SubSeq(s, 3, Len(s))
    ELSE <<>>

\* A match that takes the hashes after the second one, whatever the first two are.
extend_unknown_hashes_unchecked(t, s) ==
    IF Len(s) >= 3 THEN drop_last(SubSeq(s, 3, Len(s))) ELSE <<>>

\* The part of a response ExtendTips goes on with.
extend_unknown_hashes(t, s) ==
    LET rest == extend_rest(t, s)
    IN  IF rest = <<>> THEN <<>> ELSE drop_last(rest)

\* RecentSyncLengths::push_obtain_tips_length and push_extend_tips_length, as
\* far as the round goes: the length is recorded.
push_length(lengths, n) == Append(lengths, n)

\* let new_downloads = download_set.len()
new_downloads(set) == Len(set)

\* The sync loop calls obtain_tips with no prospective tip; known is what
\* the state has.
obtain_tips_start(known) ==
    /\ tips_pc \in {"idle", "failed"}
    /\ tips_pc' = "obtain_tips"
    /\ state_hashes' = known
    /\ prospective_tips' = {}
    /\ taken_tips' = {}
    /\ tip' = None
    /\ responses' = FANOUT
    /\ res' = None
    /\ download_set' = <<>>
    /\ blocks_iter' = <<>>
    /\ requested' = <<>>
    /\ pushed_lengths' = <<>>
    /\ UNCHANGED notTips

\* One response of the fan out of obtain_tips, and the body of the loop.
obtain_tips_response(r) ==
    /\ tips_pc = "obtain_tips"
    /\ responses > 0
    /\ res = None
    /\ responses' = responses - 1
    /\ res' = Some(r)
    /\ LET unknown_hashes == IF r.ok THEN obtain_unknown_hashes(r.hashes) ELSE <<>>
           tip_found == new_tip(unknown_hashes)
       IN  IF tip_found = None
           THEN UNCHANGED <<prospective_tips, download_set>>
           ELSE /\ prospective_tips' =
                       IF \A t \in tip_found : t.expected_next \notin Range(download_set)
                       THEN {t \in prospective_tips :
                                t.expected_next \notin Range(unknown_hashes)} \cup tip_found
                       ELSE prospective_tips
                /\ download_set' = extend(download_set, unknown_hashes)
    /\ UNCHANGED <<tips_pc, state_hashes, taken_tips, tip, blocks_iter, requested>>
    /\ UNCHANGED pushed_lengths
    /\ UNCHANGED notTips

\* The loop of obtain_tips goes to its next response.
obtain_tips_next ==
    /\ tips_pc = "obtain_tips"
    /\ res # None
    /\ res' = None
    /\ UNCHANGED <<tips_pc, state_hashes, prospective_tips, taken_tips, tip, responses,
                   download_set, blocks_iter, requested>>
    /\ UNCHANGED pushed_lengths
    /\ UNCHANGED notTips

\* An end of obtain_tips that goes to request_blocks without asking the state.
obtain_tips_finish_unchecked ==
    /\ tips_pc = "obtain_tips"
    /\ responses = 0
    /\ res = None
    /\ tips_pc' = IF download_set = <<>> THEN "idle" ELSE "request_blocks"
    /\ pushed_lengths' = push_length(pushed_lengths, new_downloads(download_set))
    /\ blocks_iter' = download_set
    /\ UNCHANGED <<state_hashes, prospective_tips, taken_tips, tip, responses, res,
                   download_set, requested>>
    /\ UNCHANGED notTips

\* The end of obtain_tips: the check of the download set against the state,
\* then the call of request_blocks.
obtain_tips_finish ==
    /\ tips_pc = "obtain_tips"
    /\ responses = 0
    /\ res = None
    /\ IF \E i \in 1..Len(download_set) : state_contains(download_set[i])
       THEN /\ tips_pc' = "failed"
            /\ blocks_iter' = <<>>
            /\ UNCHANGED pushed_lengths
       ELSE /\ tips_pc' = IF download_set = <<>> THEN "idle" ELSE "request_blocks"
            /\ pushed_lengths' = push_length(pushed_lengths, new_downloads(download_set))
            /\ blocks_iter' = download_set
    /\ UNCHANGED <<state_hashes, prospective_tips, taken_tips, tip, responses, res,
                   download_set, requested>>
    /\ UNCHANGED notTips

\* extend_tips takes the prospective tips, and does not ask the state; the
\* rounds of the model are the ones with one tip to extend.
extend_tips_start ==
    /\ tips_pc = "idle"
    /\ Cardinality(prospective_tips) = 1
    /\ tips_pc' = "extend_tips"
    /\ taken_tips' = prospective_tips
    /\ prospective_tips' = {}
    /\ tip' = None
    /\ responses' = 0
    /\ res' = None
    /\ download_set' = <<>>
    /\ blocks_iter' = <<>>
    /\ requested' = <<>>
    /\ state_hashes' = {}
    /\ pushed_lengths' = <<>>
    /\ UNCHANGED notTips

\* The loop over the tips comes to t, and fans out its FindBlocks request.
extend_tips_tip(t) ==
    /\ tips_pc = "extend_tips"
    /\ responses = 0
    /\ res = None
    /\ t \in taken_tips
    /\ taken_tips' = taken_tips \ {t}
    /\ tip' = Some(t)
    /\ responses' = FANOUT
    /\ UNCHANGED <<tips_pc, state_hashes, prospective_tips, res, download_set, blocks_iter,
                   requested>>
    /\ UNCHANGED pushed_lengths
    /\ UNCHANGED notTips

\* One response of the fan out of extend_tips for the tip it is at, and the
\* body of the loop.
extend_tips_response(r) ==
    /\ tips_pc = "extend_tips"
    /\ responses > 0
    /\ res = None
    /\ responses' = responses - 1
    /\ res' = Some(r)
    /\ LET unknown_hashes ==
               IF r.ok THEN extend_unknown_hashes(CHOOSE t \in tip : TRUE, r.hashes)
               ELSE <<>>
           tip_found == new_tip(unknown_hashes)
       IN  IF tip_found = None
           THEN UNCHANGED <<prospective_tips, download_set>>
           ELSE /\ prospective_tips' =
                       IF \A t \in tip_found : t.expected_next \notin Range(download_set)
                       THEN {t \in prospective_tips :
                                t.expected_next \notin Range(unknown_hashes)} \cup tip_found
                       ELSE prospective_tips
                /\ download_set' = extend(download_set, unknown_hashes)
    /\ UNCHANGED <<tips_pc, state_hashes, taken_tips, tip, blocks_iter, requested>>
    /\ UNCHANGED pushed_lengths
    /\ UNCHANGED notTips

\* The loop of extend_tips goes to its next response.
extend_tips_next ==
    /\ tips_pc = "extend_tips"
    /\ res # None
    /\ res' = None
    /\ UNCHANGED <<tips_pc, state_hashes, prospective_tips, taken_tips, tip, responses,
                   download_set, blocks_iter, requested>>
    /\ UNCHANGED pushed_lengths
    /\ UNCHANGED notTips

\* An end of extend_tips that pushes a length only when there is a download.
extend_tips_finish_unless_empty ==
    /\ tips_pc = "extend_tips"
    /\ responses = 0
    /\ res = None
    /\ taken_tips = {}
    /\ tips_pc' = IF download_set = <<>> THEN "idle" ELSE "request_blocks"
    /\ pushed_lengths' = IF download_set = <<>> THEN pushed_lengths
                       ELSE push_length(pushed_lengths, new_downloads(download_set))
    /\ blocks_iter' = download_set
    /\ tip' = None
    /\ UNCHANGED <<state_hashes, prospective_tips, taken_tips, responses, res, download_set,
                   requested>>
    /\ UNCHANGED notTips

\* The end of extend_tips: the call of request_blocks.
extend_tips_finish ==
    /\ tips_pc = "extend_tips"
    /\ responses = 0
    /\ res = None
    /\ taken_tips = {}
    /\ tips_pc' = IF download_set = <<>> THEN "idle" ELSE "request_blocks"
    /\ pushed_lengths' = push_length(pushed_lengths, new_downloads(download_set))
    /\ blocks_iter' = download_set
    /\ tip' = None
    /\ UNCHANGED <<state_hashes, prospective_tips, taken_tips, responses, res, download_set,
                   requested>>
    /\ UNCHANGED notTips

\* An iterator that yields the hashes back to front.
next_hash_reversed(iter) == iter[Len(iter)]

\* hashes.into_iter().next(): the hashes come in the order of the IndexSet.
next_hash(iter) == Head(iter)

\* One pass of the loop of request_blocks: download_and_verify of the next
\* hash, which may fail.
request_blocks_hash(ok) ==
    /\ tips_pc = "request_blocks"
    /\ blocks_iter # <<>>
    /\ LET hash == next_hash(blocks_iter)
           rest == SelectSeq(blocks_iter, LAMBDA h : h # hash)
       IN  IF ok
           THEN /\ requested' = Append(requested, hash)
                /\ blocks_iter' = rest
                /\ tips_pc' = IF rest = <<>> THEN "idle" ELSE "request_blocks"
           ELSE /\ tips_pc' = "failed"
                /\ blocks_iter' = <<>>
                /\ UNCHANGED requested
    /\ UNCHANGED <<state_hashes, prospective_tips, taken_tips, tip, responses, res,
                   download_set>>
    /\ UNCHANGED pushed_lengths
    /\ UNCHANGED notTips

----------------------------------------------------------------------------
(* The peer Client and the handle of its tests:                            *)
(* zebra-network/src/peer/client.rs, peer/client/tests.rs                  *)

\* MockClientBuilder::build
InitClient ==
    /\ client = "alive"
    /\ client_error_slot = None
    /\ server_tx_closed = FALSE
    /\ requests_queued = 0
    /\ request_receiver = "open"
    /\ shutdown_tx = TRUE
    /\ shutdown_receiver = "waiting"
    /\ connection_task = "running"
    /\ heartbeat_task = "running"
    /\ ready_ret = "none"

\* mpsc::channel(1)
REQUEST_CHANNEL_SIZE == 1

\* MockedClientHandle::set_error: expects an empty slot.
set_error(e) ==
    /\ client_error_slot = None
    /\ client_error_slot' = Some(e)
    /\ UNCHANGED <<client, server_tx_closed, requests_queued, request_receiver, shutdown_tx,
                   shutdown_receiver, connection_task, heartbeat_task>>
    /\ ready_ret' = "none"
    /\ UNCHANGED notClient

\* MockedClientHandle::drop_shutdown_receiver
drop_shutdown_receiver ==
    /\ shutdown_receiver # "dropped"
    /\ shutdown_receiver' = "dropped"
    /\ UNCHANGED <<client, client_error_slot, server_tx_closed, requests_queued,
                   request_receiver, shutdown_tx, connection_task, heartbeat_task>>
    /\ ready_ret' = "none"
    /\ UNCHANGED notClient

\* MockedClientHandle::close_request_receiver
close_request_receiver ==
    /\ request_receiver # "dropped"
    /\ request_receiver' = "closed"
    /\ UNCHANGED <<client, client_error_slot, server_tx_closed, requests_queued, shutdown_tx,
                   shutdown_receiver, connection_task, heartbeat_task>>
    /\ ready_ret' = "none"
    /\ UNCHANGED notClient

\* MockedClientHandle::drop_request_receiver
drop_request_receiver ==
    /\ request_receiver # "dropped"
    /\ request_receiver' = "dropped"
    /\ requests_queued' = 0
    /\ UNCHANGED <<client, client_error_slot, server_tx_closed, shutdown_tx,
                   shutdown_receiver, connection_task, heartbeat_task>>
    /\ ready_ret' = "none"
    /\ UNCHANGED notClient

\* MockedClientHandle::try_to_receive_request, when a request is queued.
try_to_receive_request ==
    /\ request_receiver # "dropped"
    /\ requests_queued > 0
    /\ requests_queued' = requests_queued - 1
    /\ UNCHANGED <<client, client_error_slot, server_tx_closed, request_receiver, shutdown_tx,
                   shutdown_receiver, connection_task, heartbeat_task>>
    /\ ready_ret' = "none"
    /\ UNCHANGED notClient

\* MockedClientHandle::stop_connection_task, or the task given to
\* with_connection_task ends as how tells.
stop_connection_task(how) ==
    /\ connection_task = "running"
    /\ connection_task' = how
    /\ UNCHANGED <<client, client_error_slot, server_tx_closed, requests_queued,
                   request_receiver, shutdown_tx, shutdown_receiver, heartbeat_task>>
    /\ ready_ret' = "none"
    /\ UNCHANGED notClient

\* MockedClientHandle::stop_heartbeat_task, or the task given to
\* with_heartbeat_task ends as how tells.
stop_heartbeat_task(how) ==
    /\ heartbeat_task = "running"
    /\ heartbeat_task' = how
    /\ UNCHANGED <<client, client_error_slot, server_tx_closed, requests_queued,
                   request_receiver, shutdown_tx, shutdown_receiver, connection_task>>
    /\ ready_ret' = "none"
    /\ UNCHANGED notClient

\* Client::shutdown: the request channel is closed, the heartbeat task is told
\* to stop, and the slot gets the error if it has none.
shutdown(e) ==
    /\ server_tx_closed' = TRUE
    /\ shutdown_tx' = FALSE
    /\ shutdown_receiver' =
           IF shutdown_tx /\ shutdown_receiver = "waiting" THEN "cancelled"
           ELSE shutdown_receiver
    /\ client_error_slot' = IF client_error_slot = None THEN Some(e) ELSE client_error_slot

\* A readiness check that takes a full request channel for a failed one.
poll_ready_result_full_fails ==
    IF shutdown_receiver = "dropped" \/ heartbeat_task # "running"
    THEN [ret |-> "Err", e |-> "HeartbeatTaskExited"]
    ELSE IF connection_task = "panicked" THEN [ret |-> "panic", e |-> ""]
    ELSE IF connection_task = "exited" THEN [ret |-> "Err", e |-> "ConnectionClosed"]
    ELSE IF server_tx_closed \/ request_receiver # "open"
              \/ requests_queued >= REQUEST_CHANNEL_SIZE
    THEN [ret |-> "Err", e |-> "ConnectionClosed"]
    ELSE IF client_error_slot # None
    THEN [ret |-> "Err", e |-> CHOOSE e \in client_error_slot : TRUE]
    ELSE [ret |-> "Ready", e |-> ""]

\* What Client::poll_ready finds: the heartbeat task, the connection task, the
\* request channel and the error slot, in this order.
poll_ready_result ==
    IF shutdown_receiver = "dropped" \/ heartbeat_task # "running"
    THEN [ret |-> "Err", e |-> "HeartbeatTaskExited"]
    ELSE IF connection_task = "panicked" THEN [ret |-> "panic", e |-> ""]
    ELSE IF connection_task = "exited" THEN [ret |-> "Err", e |-> "ConnectionClosed"]
    ELSE IF server_tx_closed \/ request_receiver # "open"
    THEN [ret |-> "Err", e |-> "ConnectionClosed"]
    ELSE IF requests_queued >= REQUEST_CHANNEL_SIZE THEN [ret |-> "Pending", e |-> ""]
    ELSE IF client_error_slot # None
    THEN [ret |-> "Err", e |-> CHOOSE e \in client_error_slot : TRUE]
    ELSE [ret |-> "Ready", e |-> ""]

\* A failed readiness check that leaves the Client as it is.
poll_ready_no_shutdown ==
    /\ client = "alive"
    /\ ready_ret' = poll_ready_result.ret
    /\ client' = IF poll_ready_result.ret = "panic" THEN "panicked" ELSE client
    /\ UNCHANGED <<server_tx_closed, shutdown_tx, shutdown_receiver, client_error_slot>>
    /\ UNCHANGED <<requests_queued, request_receiver, connection_task, heartbeat_task>>
    /\ UNCHANGED notClient

\* Client::poll_ready: an error shuts the Client down.
poll_ready ==
    /\ client = "alive"
    /\ ready_ret' = poll_ready_result.ret
    /\ client' = IF poll_ready_result.ret = "panic" THEN "panicked" ELSE client
    /\ IF poll_ready_result.ret = "Err"
       THEN shutdown(poll_ready_result.e)
       ELSE UNCHANGED <<server_tx_closed, shutdown_tx, shutdown_receiver, client_error_slot>>
    /\ UNCHANGED <<requests_queued, request_receiver, connection_task, heartbeat_task>>
    /\ UNCHANGED notClient

\* Client::call, after a readiness check that returned Ready: the request goes
\* into the channel if the channel takes it.
call ==
    /\ client = "alive"
    /\ ready_ret = "Ready"
    /\ ready_ret' = "none"
    /\ requests_queued' =
           IF ~server_tx_closed /\ request_receiver = "open"
              /\ requests_queued < REQUEST_CHANNEL_SIZE
           THEN requests_queued + 1
           ELSE requests_queued
    /\ UNCHANGED <<client, client_error_slot, server_tx_closed, request_receiver, shutdown_tx,
                   shutdown_receiver, connection_task, heartbeat_task>>
    /\ UNCHANGED notClient

\* Drop for Client
drop_client ==
    /\ client = "alive"
    /\ client' = "dropped"
    /\ shutdown("ConnectionDropped")
    /\ ready_ret' = "none"
    /\ UNCHANGED <<requests_queued, request_receiver, connection_task, heartbeat_task>>
    /\ UNCHANGED notClient

----------------------------------------------------------------------------
(* The peer Connection and the harness of its tests:                       *)
(* zebra-network/src/peer/connection.rs, peer/connection/tests.rs          *)

\* The requests a client sends and the messages a peer sends in one run.
MaxRequests == 2

\* new_test_connection
InitConnection ==
    /\ conn_state = "AwaitingRequest"
    /\ started_failed = FALSE
    /\ conn_error_slot = None
    /\ client_tx = "open"
    /\ client_rx_closed = FALSE
    /\ client_requests = 0
    /\ requests_sent = 0
    /\ peer_inbound_tx = "open"
    /\ peer_rx_closed = FALSE
    /\ peer_message = None
    /\ messages_sent = 0
    /\ run = "created"
    /\ peer_outbound = 0
    /\ inbound_requests = 0

\* mpsc::channel(1) of new_test_connection
CLIENT_CHANNEL_SIZE == 1

\* A message of the peer is a request of the peer or a response to a request
\* of the client.
PeerMessage == {"request", "response"}

\* connection.state = State::Failed and the slot filled, before run is called
start_failed(e) ==
    /\ run = "created"
    /\ conn_state = "AwaitingRequest"
    /\ conn_state' = "Failed"
    /\ started_failed' = TRUE
    /\ conn_error_slot' = IF conn_error_slot = None THEN Some(e) ELSE conn_error_slot
    /\ UNCHANGED <<client_tx, client_rx_closed, client_requests, requests_sent,
                   peer_inbound_tx, peer_rx_closed, peer_message, messages_sent, run,
                   peer_outbound, inbound_requests>>
    /\ UNCHANGED notConn

\* client_tx.send(request)
client_send ==
    /\ client_tx = "open"
    /\ ~client_rx_closed
    /\ client_requests < CLIENT_CHANNEL_SIZE
    /\ requests_sent < MaxRequests
    /\ client_requests' = client_requests + 1
    /\ requests_sent' = requests_sent + 1
    /\ UNCHANGED <<conn_state, started_failed, conn_error_slot, client_tx,
                   client_rx_closed, peer_inbound_tx, peer_rx_closed, peer_message,
                   messages_sent, run, peer_outbound, inbound_requests>>
    /\ UNCHANGED notConn

\* client_tx.close_channel() and std::mem::drop(client_tx)
client_close(how) ==
    /\ client_tx = "open"
    /\ client_tx' = how
    /\ UNCHANGED <<conn_state, started_failed, conn_error_slot, client_rx_closed,
                   client_requests, requests_sent, peer_inbound_tx, peer_rx_closed,
                   peer_message, messages_sent, run, peer_outbound, inbound_requests>>
    /\ UNCHANGED notConn

\* peer_inbound_tx.send(message)
peer_send(msg) ==
    /\ peer_inbound_tx = "open"
    /\ ~peer_rx_closed
    /\ peer_message = None
    /\ messages_sent < MaxRequests
    /\ peer_message' = Some(msg)
    /\ messages_sent' = messages_sent + 1
    /\ UNCHANGED <<conn_state, started_failed, conn_error_slot, client_tx,
                   client_rx_closed, client_requests, requests_sent, peer_inbound_tx,
                   peer_rx_closed, run, peer_outbound, inbound_requests>>
    /\ UNCHANGED notConn

\* peer_inbound_tx.close_channel() and std::mem::drop(peer_inbound_tx)
peer_inbound_close(how) ==
    /\ peer_inbound_tx = "open"
    /\ peer_inbound_tx' = how
    /\ UNCHANGED <<conn_state, started_failed, conn_error_slot, client_tx,
                   client_rx_closed, client_requests, requests_sent, peer_rx_closed,
                   peer_message, messages_sent, run, peer_outbound, inbound_requests>>
    /\ UNCHANGED notConn

\* The run loop is being polled, or can be.
Running == run \in {"created", "pending"}

\* Connection::shutdown: the slot gets the error if it is empty, the requests
\* still queued are rejected, and both channels are closed.
shutdown_connection(e) ==
    /\ conn_error_slot' = IF conn_error_slot = None THEN Some(e) ELSE conn_error_slot
    /\ client_rx_closed' = TRUE
    /\ client_requests' = 0
    /\ peer_rx_closed' = TRUE

\* Connection::run, State::AwaitingRequest: a request of the client
handle_client_request ==
    /\ Running
    /\ conn_state = "AwaitingRequest"
    /\ client_requests > 0
    /\ client_requests' = client_requests - 1
    /\ peer_outbound' = peer_outbound + 1
    /\ conn_state' = "AwaitingResponse"
    /\ run' = "pending"
    /\ UNCHANGED <<started_failed, conn_error_slot, client_tx, client_rx_closed,
                   requests_sent, peer_inbound_tx, peer_rx_closed, peer_message,
                   messages_sent, inbound_requests>>
    /\ UNCHANGED notConn

\* Connection::run, State::AwaitingRequest: the client channel has ended
handle_client_closed ==
    /\ Running
    /\ conn_state = "AwaitingRequest"
    /\ client_tx # "open"
    /\ client_requests = 0
    /\ conn_state' = "Failed"
    /\ shutdown_connection("ConnectionDropped")
    /\ run' = "returned"
    /\ UNCHANGED <<started_failed, client_tx, requests_sent, peer_inbound_tx,
                   peer_message, messages_sent, peer_outbound, inbound_requests>>
    /\ UNCHANGED notConn

\* Connection::run: a message of the peer.  A request of the peer goes to the
\* inbound service in both states and its response is written to the peer; a
\* response ends State::AwaitingResponse and is dropped in AwaitingRequest.
handle_peer_message ==
    /\ Running
    /\ conn_state \in {"AwaitingRequest", "AwaitingResponse"}
    /\ peer_message # None
    /\ peer_message' = None
    /\ IF peer_message = Some("request")
       THEN /\ inbound_requests' = inbound_requests + 1
            /\ peer_outbound' = peer_outbound + 1
            /\ UNCHANGED conn_state
       ELSE /\ conn_state' = "AwaitingRequest"
            /\ UNCHANGED <<inbound_requests, peer_outbound>>
    /\ run' = "pending"
    /\ UNCHANGED <<started_failed, conn_error_slot, client_tx, client_rx_closed,
                   client_requests, requests_sent, peer_inbound_tx, peer_rx_closed,
                   messages_sent>>
    /\ UNCHANGED notConn

\* Connection::run: the stream of the peer has ended
handle_peer_closed ==
    /\ Running
    /\ conn_state \in {"AwaitingRequest", "AwaitingResponse"}
    /\ peer_inbound_tx # "open"
    /\ peer_message = None
    /\ conn_state' = "Failed"
    /\ shutdown_connection("ConnectionClosed")
    /\ run' = "returned"
    /\ UNCHANGED <<started_failed, client_tx, requests_sent, peer_inbound_tx,
                   peer_message, messages_sent, peer_outbound, inbound_requests>>
    /\ UNCHANGED notConn

\* Connection::run, State::AwaitingResponse: the request timer expires
request_timeout ==
    /\ Running
    /\ conn_state = "AwaitingResponse"
    /\ conn_state' = "AwaitingRequest"
    /\ run' = "pending"
    /\ UNCHANGED <<started_failed, conn_error_slot, client_tx, client_rx_closed,
                   client_requests, requests_sent, peer_inbound_tx, peer_rx_closed,
                   peer_message, messages_sent, peer_outbound, inbound_requests>>
    /\ UNCHANGED notConn

\* Connection::run, State::Failed: the loop exits
exit_failed ==
    /\ Running
    /\ conn_state = "Failed"
    /\ shutdown_connection("ConnectionClosed")
    /\ run' = "returned"
    /\ UNCHANGED <<conn_state, started_failed, client_tx, requests_sent,
                   peer_inbound_tx, peer_message, messages_sent, peer_outbound,
                   inbound_requests>>
    /\ UNCHANGED notConn

\* Connection::run: nothing to do, the loop waits
wait ==
    /\ run = "created"
    /\ conn_state = "AwaitingRequest"
    /\ client_requests = 0 /\ client_tx = "open"
    /\ peer_message = None /\ peer_inbound_tx = "open"
    /\ run' = "pending"
    /\ UNCHANGED <<conn_state, started_failed, conn_error_slot, client_tx,
                   client_rx_closed, client_requests, requests_sent, peer_inbound_tx,
                   peer_rx_closed, peer_message, messages_sent, peer_outbound,
                   inbound_requests>>
    /\ UNCHANGED notConn

\* A drop of the run future that leaves the channels and the slot as they are.
drop_run_keeps_slot ==
    /\ Running
    /\ run' = "dropped"
    /\ UNCHANGED <<conn_state, started_failed, conn_error_slot, client_tx,
                   client_rx_closed, client_requests, requests_sent, peer_inbound_tx,
                   peer_rx_closed, peer_message, messages_sent, peer_outbound,
                   inbound_requests>>
    /\ UNCHANGED notConn

\* Drop for Connection, when the future of run is dropped
drop_run ==
    /\ Running
    /\ run' = "dropped"
    /\ shutdown_connection("ConnectionDropped")
    /\ UNCHANGED <<conn_state, started_failed, client_tx, requests_sent,
                   peer_inbound_tx, peer_message, messages_sent, peer_outbound,
                   inbound_requests>>
    /\ UNCHANGED notConn

----------------------------------------------------------------------------
(* The minimum peer version and the harness of its tests:                  *)
(* zebra-network/src/peer/minimum_peer_version.rs and its tests.rs         *)

Network == {"Mainnet", "Testnet"}

\* The heights at which a network upgrade raises the minimum version, lowest
\* first, scaled to the heights of the model.
ActivationHeights(network) == IF network = "Mainnet" THEN <<1, 3>> ELSE <<1, 2>>

\* The minimum version for a node that has no tip yet.
INITIAL_MIN_VERSION == 2

\* Version::min_remote_for_height: the version required by the last network
\* upgrade active at the height.  Versions are 1, 2, 3 for the upgrades.
min_remote_for_height(network, height) ==
    IF height = None THEN INITIAL_MIN_VERSION
    ELSE LET h == CHOOSE x \in height : TRUE
             a == ActivationHeights(network)
         IN  1 + Cardinality({i \in 1..Len(a) : a[i] <= h})

\* MockChainTip::new and MinimumPeerVersion before new()
InitMinimumPeerVersion ==
    /\ mpv_network = None
    /\ best_tip_height = None
    /\ current_minimum = INITIAL_MIN_VERSION
    /\ has_changed = TRUE
    /\ current_ret = None
    /\ changed_ret = None
    /\ reported_minimum = None
    /\ height_sent = FALSE

\* MinimumPeerVersion::new(chain_tip, network)
new_minimum_peer_version(network) ==
    /\ mpv_network = None
    /\ mpv_network' = Some(network)
    /\ current_minimum' = min_remote_for_height(network, None)
    /\ has_changed' = TRUE
    /\ current_ret' = None
    /\ changed_ret' = None
    /\ UNCHANGED <<best_tip_height, reported_minimum, height_sent>>
    /\ UNCHANGED notMpv

\* best_tip_height.send(block_height)
send_best_tip_height(block_height) ==
    /\ mpv_network # None
    /\ best_tip_height' = block_height
    /\ height_sent' = TRUE
    /\ current_ret' = None
    /\ changed_ret' = None
    /\ UNCHANGED <<mpv_network, current_minimum, has_changed, reported_minimum>>
    /\ UNCHANGED notMpv

\* The minimum version for the tip the chain has now.
NewMinimum ==
    min_remote_for_height(CHOOSE n \in mpv_network : TRUE, best_tip_height)

\* MinimumPeerVersion::current
current ==
    /\ mpv_network # None
    /\ current_ret' = Some(NewMinimum)
    /\ changed_ret' = None
    /\ UNCHANGED <<mpv_network, best_tip_height, current_minimum, has_changed,
                   reported_minimum, height_sent>>
    /\ UNCHANGED notMpv

\* An update that takes every call for a change.
update_minimum_always_changed ==
    [current_minimum |-> NewMinimum, has_changed |-> TRUE]

\* MinimumPeerVersion::update: the fields after it
update_minimum ==
    IF current_minimum # NewMinimum
    THEN [current_minimum |-> NewMinimum, has_changed |-> TRUE]
    ELSE [current_minimum |-> current_minimum, has_changed |-> has_changed]

\* MinimumPeerVersion::changed
changed ==
    /\ mpv_network # None
    /\ current_minimum' = update_minimum.current_minimum
    /\ has_changed' = FALSE
    /\ changed_ret' = Some(IF update_minimum.has_changed THEN Some(update_minimum.current_minimum)
                           ELSE None)
    /\ reported_minimum' = Some(NewMinimum)
    /\ height_sent' = FALSE
    /\ current_ret' = None
    /\ UNCHANGED <<mpv_network, best_tip_height>>
    /\ UNCHANGED notMpv

----------------------------------------------------------------------------
(* addrv2 entries: zebra-network/src/protocol/external/addr/v2.rs          *)

\* The longest addr field of an entry, in bytes.
MaxAddrLen == 513

\* The highest network ID of an entry.
MaxNetworkId == 3

MAX_ADDR_V2_ADDR_SIZE == 512

ADDR_V2_IPV4_ADDR_SIZE == 4

ADDR_V2_IPV6_ADDR_SIZE == 16

\* The bytes of a CompactSize that encodes a length.
CompactSizeLen(n) == IF n < 253 THEN 1 ELSE 3

\* The bytes of an entry with an addr of the length: the time, the services
\* (in one byte), the network ID, the length of addr, addr, and the port.
EntrySize(addr_len) == 4 + 1 + 1 + CompactSizeLen(addr_len) + addr_len + 2

\* What a reader holds: an entry with a network ID and an addr, which the
\* stream has in full or cuts short, and the bytes that follow the entry.
Readers ==
    [network_id: 0..MaxNetworkId, addr_len: 0..MaxAddrLen, complete: BOOLEAN,
     trailing: 0..1]

InitAddrV2 ==
    /\ reader = None
    /\ addr_v2 = None
    /\ meta_addr = "none"

ParseError(message) == [ok |-> FALSE, variant |-> message, consumed |-> 0]

\* A deserialization that checks the length of addr only for the network IDs
\* it knows.
AddrV2_zcash_deserialize_known_only(r) ==
    IF ~r.complete THEN ParseError("io error")
    ELSE IF r.network_id = 1
    THEN IF r.addr_len # ADDR_V2_IPV4_ADDR_SIZE
         THEN ParseError("IPv4 field length")
         ELSE [ok |-> TRUE, variant |-> "IpAddr", consumed |-> EntrySize(r.addr_len)]
    ELSE IF r.network_id = 2
    THEN IF r.addr_len # ADDR_V2_IPV6_ADDR_SIZE
         THEN ParseError("IPv6 field length")
         ELSE [ok |-> TRUE, variant |-> "IpAddr", consumed |-> EntrySize(r.addr_len)]
    ELSE [ok |-> TRUE, variant |-> "Unimplemented", consumed |-> EntrySize(r.addr_len)]

\* AddrV2::zcash_deserialize: all the fields are read first, which fails when
\* the stream ends before the port; then the length of addr is checked.
AddrV2_zcash_deserialize(r) ==
    IF ~r.complete THEN ParseError("io error")
    ELSE IF r.addr_len > MAX_ADDR_V2_ADDR_SIZE
    THEN ParseError("addr field longer than MAX_ADDR_V2_ADDR_SIZE")
    ELSE IF r.network_id = 1
    THEN IF r.addr_len # ADDR_V2_IPV4_ADDR_SIZE
         THEN ParseError("IPv4 field length")
         ELSE [ok |-> TRUE, variant |-> "IpAddr", consumed |-> EntrySize(r.addr_len)]
    ELSE IF r.network_id = 2
    THEN IF r.addr_len # ADDR_V2_IPV6_ADDR_SIZE
         THEN ParseError("IPv6 field length")
         ELSE [ok |-> TRUE, variant |-> "IpAddr", consumed |-> EntrySize(r.addr_len)]
    ELSE [ok |-> TRUE, variant |-> "Unimplemented", consumed |-> EntrySize(r.addr_len)]

\* AddrV2::zcash_deserialize, called on a reader
zcash_deserialize(r) ==
    /\ reader = None
    /\ reader' = Some(r)
    /\ addr_v2' = Some(AddrV2_zcash_deserialize(r))
    /\ UNCHANGED meta_addr
    /\ UNCHANGED notAddrV2

\* From<AddrV2> for Option<MetaAddr>
into_meta_addr ==
    /\ meta_addr = "none"
    /\ \E a \in addr_v2 :
           /\ a.ok
           /\ meta_addr' = IF a.variant = "IpAddr" THEN "Some" ELSE "None"
    /\ UNCHANGED <<reader, addr_v2>>
    /\ UNCHANGED notAddrV2

----------------------------------------------------------------------------
(* The mempool crawler: zebrad/src/components/mempool/crawler.rs           *)

\* The number of peers to request transactions from per crawl event.
CRAWLER_FANOUT == 4

\* The most transaction IDs in the response of one peer.
MaxTransactionIds == 2

\* The transaction IDs peers answer with: the transactions with one spend at
\* most, which do not conflict with each other.
GossipedTxIds ==
    {tx \in UnminedTx :
        Len(tx.inputs) + Len(tx.sprout) + Len(tx.sapling) + Len(tx.orchard) <= 1}

\* Response::TransactionIds(ids)
TransactionIds ==
    {ids \in SUBSET GossipedTxIds : Cardinality(ids) <= MaxTransactionIds}

\* Crawler::spawn
InitCrawler ==
    /\ crawler_pc = "crawl"
    /\ requests = 0
    /\ received_ids = {}
    /\ tx_downloads = {}

\* Crawler::crawl_transactions, up to the requests: FANOUT peers are asked for
\* their transaction IDs, unless the peer set fails for good.
crawl_transactions(peer_set_ready) ==
    /\ crawler_pc = "crawl"
    /\ IF peer_set_ready
       THEN /\ requests' = CRAWLER_FANOUT
            /\ crawler_pc' = "responses"
       ELSE /\ requests' = 0
            /\ crawler_pc' = "failed"
    /\ UNCHANGED <<received_ids, tx_downloads>>
    /\ UNCHANGED notCrawler

\* A peer request fails or times out: the error is logged.
response_error ==
    /\ crawler_pc = "responses"
    /\ requests > 0
    /\ requests' = requests - 1
    /\ UNCHANGED <<crawler_pc, received_ids, tx_downloads>>
    /\ UNCHANGED notCrawler

\* Crawler::handle_response
handle_response(transaction_ids) ==
    /\ crawler_pc = "responses"
    /\ requests > 0
    /\ requests' = requests - 1
    /\ received_ids' = received_ids \cup transaction_ids
    /\ UNCHANGED <<crawler_pc, tx_downloads>>
    /\ UNCHANGED notCrawler

\* Crawler::crawl_transactions returns Ok(()) after the last response
crawl_transactions_done ==
    /\ crawler_pc = "responses"
    /\ requests = 0
    /\ crawler_pc' = "sleep"
    /\ UNCHANGED <<requests, received_ids, tx_downloads>>
    /\ UNCHANGED notCrawler

\* sleep(RATE_LIMIT_DELAY) of Crawler::run
sleep ==
    /\ crawler_pc = "sleep"
    /\ crawler_pc' = "crawl"
    /\ UNCHANGED <<requests, received_ids, tx_downloads>>
    /\ UNCHANGED notCrawler

----------------------------------------------------------------------------
(* One round of obtain_tips or extend_tips on the same responses in both   *)
(* orders of arrival: zebrad/src/components/sync.rs                        *)

\* The most hashes in a response of the rounds that are run in both orders.
MaxRoundHashes == 4

RoundResponses == {r \in FindBlocksResponse : Len(r.hashes) <= MaxRoundHashes}

\* The locals of a round before its first response.
NewRound == [prospective_tips |-> {}, download_set |-> <<>>]

InitOrder ==
    /\ arrived = <<>>
    /\ round_kind = "none"
    /\ round_in_order = NewRound
    /\ round_reversed = NewRound

\* The end of the loop body of obtain_tips and of extend_tips, from new_tip
\* on: round is self.prospective_tips and download_set before it.
round_body(round, unknown_hashes) ==
    LET tip_found == new_tip(unknown_hashes)
    IN  IF tip_found = None THEN round
        ELSE [prospective_tips |->
                  IF \A t \in tip_found :
                         t.expected_next \notin Range(round.download_set)
                  THEN {t \in round.prospective_tips :
                           t.expected_next \notin Range(unknown_hashes)} \cup tip_found
                  ELSE round.prospective_tips,
              download_set |-> extend(round.download_set, unknown_hashes)]

\* while let Some(res) = requests.next().await of obtain_tips, on the
\* responses in the order rs
RECURSIVE obtain_tips_loop(_, _)
obtain_tips_loop(round, rs) ==
    IF rs = <<>> THEN round
    ELSE obtain_tips_loop(
             round_body(round, IF Head(rs).ok THEN obtain_unknown_hashes(Head(rs).hashes)
                               ELSE <<>>),
             Tail(rs))

\* while let Some(res) = responses.next().await of extend_tips for the tip t,
\* on the responses in the order rs
RECURSIVE extend_tips_loop(_, _, _)
extend_tips_loop(round, t, rs) ==
    IF rs = <<>> THEN round
    ELSE extend_tips_loop(
             round_body(round, IF Head(rs).ok THEN extend_unknown_hashes(t, Head(rs).hashes)
                               ELSE <<>>),
             t, Tail(rs))

Reverse(s) == [i \in 1..Len(s) |-> s[Len(s) + 1 - i]]

\* The fan out of obtain_tips is answered with rs: the loop over the responses
\* runs to its end on them in that order. round_reversed is what the loop
\* leaves when the same responses arrive the other way round.
obtain_tips_both_orders(rs) ==
    /\ tips_pc = "obtain_tips"
    /\ responses = FANOUT
    /\ round_kind = "none"
    /\ arrived' = rs
    /\ round_kind' = "obtain_tips"
    /\ round_in_order' = obtain_tips_loop(NewRound, rs)
    /\ round_reversed' = obtain_tips_loop(NewRound, Reverse(rs))
    /\ prospective_tips' = round_in_order'.prospective_tips
    /\ download_set' = round_in_order'.download_set
    /\ responses' = 0
    /\ UNCHANGED <<tips_pc, state_hashes, taken_tips, tip, res, blocks_iter, requested,
                   pushed_lengths>>
    /\ UNCHANGED notTipsOrder

\* extend_tips takes the one prospective tip t, and its fan out is answered
\* with rs; round_reversed as above.
extend_tips_both_orders(t, rs) ==
    /\ tips_pc = "idle"
    /\ round_kind = "none"
    /\ arrived' = rs
    /\ round_kind' = "extend_tips"
    /\ round_in_order' = extend_tips_loop(NewRound, t, rs)
    /\ round_reversed' = extend_tips_loop(NewRound, t, Reverse(rs))
    /\ tips_pc' = "extend_tips"
    /\ prospective_tips' = round_in_order'.prospective_tips
    /\ download_set' = round_in_order'.download_set
    /\ taken_tips' = {}
    /\ tip' = Some(t)
    /\ responses' = 0
    /\ res' = None
    /\ blocks_iter' = <<>>
    /\ requested' = <<>>
    /\ pushed_lengths' = <<>>
    /\ state_hashes' = {}
    /\ UNCHANGED notTipsOrder

-----------------------------------------------------------------------------
(* The PeerDiscoverer: zebra-network/src/discoverer.rs                      *)

\* The most pairs discovered_peers yields.
MaxDiscovered == 3

\* The addresses of the discovered peers.
SocketAddr == {"a1", "a2"}

\* What a stream may do when it is polled after it has ended: return None
\* again, return Pending, or panic (the Stream trait asks nothing of it).
AfterEnd == {"None", "Pending", "panic"}

\* What a poll of discovered_peers returns.
Polled ==
    {[poll |-> "Pending", address |-> None], [poll |-> "None", address |-> None],
     [poll |-> "panic", address |-> None]}
        \cup {[poll |-> "Some", address |-> Some(a)] : a \in SocketAddr}

\* Ok(Change::Insert(address, client))
Insert(address, service) ==
    [change |-> "Insert", address |-> address, client |-> service]

\* PeerDiscoverer::new
InitDiscoverer ==
    /\ disc_pc = "new"
    /\ after_end = "None"
    /\ received = <<>>
    /\ source_ended = FALSE
    /\ polled_after_end = FALSE
    /\ discovery_event_sender = TRUE
    /\ discovery_events = <<>>
    /\ yielded = <<>>
    /\ yielded_none = FALSE

\* PeerDiscoverer::new, on a stream of the kind kind.
PeerDiscoverer_new(kind) ==
    /\ disc_pc = "new"
    /\ disc_pc' = "idle"
    /\ after_end' = kind
    /\ UNCHANGED <<received, source_ended, polled_after_end, discovery_event_sender,
                   discovery_events, yielded, yielded_none>>
    /\ UNCHANGED notDisc

\* PeakEwmaDiscover::poll_discover on the receiver of the channel: the next
\* event if there is one, None when the sender is dropped, Pending otherwise.
poll_discover ==
    IF discovery_events # <<>> THEN "Ready"
    ELSE IF discovery_event_sender THEN "Pending"
    ELSE "None"

\* A finish_preparing_client that reports the peer as removed.
finish_preparing_client_as_remove(address, load_tracked_service) ==
    [change |-> "Remove", address |-> address, client |-> load_tracked_service]

\* PeerDiscoverer::finish_preparing_client
finish_preparing_client(address, load_tracked_service) ==
    Insert(address, load_tracked_service)

\* PeerDiscoverer::poll_next up to the loop of forward_discovered_peers
PeerDiscoverer_poll_next ==
    /\ disc_pc = "idle"
    /\ ~yielded_none
    /\ IF poll_discover = "Ready"
       THEN /\ yielded' = Append(yielded,
                                 finish_preparing_client(Head(discovery_events).address,
                                                         Head(discovery_events).client))
            /\ discovery_events' = Tail(discovery_events)
            /\ UNCHANGED <<disc_pc, yielded_none>>
       ELSE IF poll_discover = "Pending"
       THEN /\ disc_pc' = "forwarding"
            /\ UNCHANGED <<yielded, discovery_events, yielded_none>>
       ELSE /\ yielded_none' = TRUE
            /\ UNCHANGED <<disc_pc, yielded, discovery_events>>
    /\ UNCHANGED <<after_end, received, source_ended, polled_after_end,
                   discovery_event_sender>>
    /\ UNCHANGED notDisc

\* PeerDiscoverer::forward_discovered_peer: the event is sent if the sender
\* is still there (the receiver is the load tracker's, which is never dropped).
forward_discovered_peer(address, service) ==
    discovery_events' = IF discovery_event_sender
                        THEN Append(discovery_events, Insert(address, service))
                        ELSE discovery_events

\* PeerDiscoverer::forward_discovered_peers: one pass of its while let loop,
\* where the poll of discovered_peers returns polled.  The clients are told
\* apart by the order they come in.
forward_discovered_peers(polled) ==
    /\ disc_pc = "forwarding"
    /\ IF source_ended THEN polled.poll = after_end
       ELSE polled.poll \in {"Pending", "None"}
            \/ (polled.poll = "Some" /\ Len(received) < MaxDiscovered)
    /\ polled_after_end' = (polled_after_end \/ source_ended)
    /\ IF polled.poll = "Some"
       THEN \E address \in polled.address :
               /\ received' = Append(received, [address |-> address,
                                                client |-> Len(received) + 1])
               /\ forward_discovered_peer(address, Len(received) + 1)
               /\ UNCHANGED <<disc_pc, source_ended, discovery_event_sender>>
       ELSE IF polled.poll = "None"
       THEN /\ source_ended' = TRUE
            /\ discovery_event_sender' = FALSE
            /\ UNCHANGED <<disc_pc, received, discovery_events>>
       ELSE /\ disc_pc' = IF polled.poll = "Pending" THEN "idle" ELSE "panicked"
            /\ UNCHANGED <<received, source_ended, discovery_event_sender,
                           discovery_events>>
    /\ UNCHANGED <<after_end, yielded, yielded_none>>
    /\ UNCHANGED notDisc

-----------------------------------------------------------------------------
(* The BestTipHeightReceiver: zebra-state/src/best_tip_height_receiver.rs   *)

\* BestTipHeightReceiver::new: watch::channel(block::Height(1)) and
\* watch::channel(None)
InitBestTipHeightReceiver ==
    /\ finalized_channel = 1
    /\ non_finalized_channel = None
    /\ receiver_pc = "idle"
    /\ non_finalized_guard = None
    /\ finalized_at_borrow = None
    /\ finalized_read = None
    /\ non_finalized_at_read = None
    /\ best_tip = None

\* Option::unwrap_or
unwrap_or(option, default) == IF option = None THEN default ELSE CHOOSE x \in option : TRUE

\* A borrow that copies the value and lets the channel go at once.
non_finalized_borrowed_never == FALSE

\* The borrow guard of the non-finalized channel is held: a send on that
\* channel waits for it.
non_finalized_borrowed == receiver_pc = "borrowed"

\* best_tip_height: let non_finalized = self.non_finalized.borrow()
best_tip_height_borrow ==
    /\ receiver_pc \in {"idle", "returned"}
    /\ receiver_pc' = "borrowed"
    /\ non_finalized_guard' = non_finalized_channel
    /\ finalized_at_borrow' = Some(finalized_channel)
    /\ finalized_read' = None
    /\ non_finalized_at_read' = None
    /\ best_tip' = None
    /\ UNCHANGED <<finalized_channel, non_finalized_channel>>
    /\ UNCHANGED notRecv

\* best_tip_height: non_finalized.unwrap_or(*self.finalized.borrow()), and the
\* guard is dropped at the return.
best_tip_height_return ==
    /\ receiver_pc = "borrowed"
    /\ receiver_pc' = "returned"
    /\ finalized_read' = Some(finalized_channel)
    /\ non_finalized_at_read' = non_finalized_channel
    /\ best_tip' = Some(unwrap_or(non_finalized_guard, finalized_channel))
    /\ UNCHANGED <<finalized_channel, non_finalized_channel, non_finalized_guard,
                   finalized_at_borrow>>
    /\ UNCHANGED notRecv

\* The holder of the finalized sender sends height.
finalized_sender_send(height) ==
    /\ finalized_channel' = height
    /\ UNCHANGED <<non_finalized_channel, receiver_pc, non_finalized_guard,
                   finalized_at_borrow, finalized_read, non_finalized_at_read, best_tip>>
    /\ UNCHANGED notRecv

\* The holder of the non-finalized sender sends height, once no guard of the
\* channel is held.
non_finalized_sender_send(height) ==
    /\ ~non_finalized_borrowed
    /\ non_finalized_channel' = height
    /\ UNCHANGED <<finalized_channel, receiver_pc, non_finalized_guard,
                   finalized_at_borrow, finalized_read, non_finalized_at_read, best_tip>>
    /\ UNCHANGED notRecv

----------------------------------------------------------------------------
(* The specifications.                                                     *)

Init ==
    /\ InitStorage
    /\ InitMempool
    /\ InitBestTipHeight
    /\ InitErrorSlot
    /\ InitAddrs
    /\ InitChainSync
    /\ InitTips
    /\ InitClient
    /\ InitConnection
    /\ InitMinimumPeerVersion
    /\ InitAddrV2
    /\ InitCrawler
    /\ InitOrder
    /\ InitDiscoverer
    /\ InitBestTipHeightReceiver

\* The ids remove is called with: the ids of the verified transactions, and one
\* id no verified transaction has (all of these make remove do the same).
RemoveArgs ==
    Range(verified) \cup {CHOOSE txid \in UnminedTx : txid \notin Range(verified)}

NextMempool ==
    \/ \E tx \in UnminedTx : insert(tx)
    \/ \E txid \in RemoveArgs : remove(txid)
    \/ clear

Spec == Init /\ [][NextMempool]_vars

NextPool ==
    \/ tip_reset
    \/ sync_status_changes
    \/ \E r \in {None} \cup {Some(tx) : tx \in UnminedTx} : download_finishes(r)
    \/ maybe_clear_storage
    \/ poll_next

SpecPool == Init /\ [][NextPool]_vars

NextTip ==
    \/ \E h \in Height : set_finalized_height(h)
    \/ \E h \in OptionHeight : set_best_non_finalized_height(h)

SpecTip == Init /\ [][NextTip]_vars

NextSlot ==
    \/ \E h \in Holders, e \in PeerError : try_update_error(h, e)
    \/ \E h \in Holders : try_get_error(h)

SpecSlot == Init /\ [][NextSlot]_vars

NextAddrs ==
    \/ \E peers \in SeqsUpTo(Time, MaxPeers), limit \in Time : receive_addrs(peers, limit)
    \/ call_validate_addrs

SpecAddrs == Init /\ [][NextAddrs]_vars

NextSync ==
    \/ \E limit \in 1..MaxLookahead, has_genesis \in BOOLEAN : new(limit, has_genesis)
    \/ \E ok \in BOOLEAN : request_genesis(ok)
    \/ \E rsp \in DownloadResults : genesis_next(rsp)
    \/ sync_restart
    \/ \E ok \in BOOLEAN, tips \in 0..MaxTips, hashes \in 0..MaxDownloadSet :
          obtain_tips(ok, tips, hashes)
    \/ \E ok \in BOOLEAN : request_blocks(ok)
    \/ tips_loop
    \/ \E ready \in BOOLEAN, rsp \in DownloadResults : poll_downloads(ready, rsp)
    \/ \E rsp \in DownloadResults : wait_downloads(rsp)
    \/ \E ok \in BOOLEAN, tips \in 0..MaxTips, hashes \in 0..MaxDownloadSet :
          extend_tips(ok, tips, hashes)

SpecSync == Init /\ [][NextSync]_vars

NextTips ==
    \/ \E known \in StateHashes : obtain_tips_start(known)
    \/ \E r \in FindBlocksResponse : obtain_tips_response(r)
    \/ obtain_tips_next
    \/ obtain_tips_finish
    \/ extend_tips_start
    \/ \E t \in CheckedTip : extend_tips_tip(t)
    \/ \E r \in FindBlocksResponse : extend_tips_response(r)
    \/ extend_tips_next
    \/ extend_tips_finish
    \/ \E ok \in BOOLEAN : request_blocks_hash(ok)

SpecTips == Init /\ [][NextTips]_vars

NextClient ==
    \/ \E e \in PeerError : set_error(e)
    \/ drop_shutdown_receiver
    \/ close_request_receiver
    \/ drop_request_receiver
    \/ try_to_receive_request
    \/ \E how \in {"exited", "panicked"} : stop_connection_task(how)
    \/ \E how \in {"exited", "panicked"} : stop_heartbeat_task(how)
    \/ poll_ready
    \/ call
    \/ drop_client

SpecClient == Init /\ [][NextClient]_vars

NextConnection ==
    \/ \E e \in PeerError : start_failed(e)
    \/ client_send
    \/ \E how \in {"closed", "dropped"} : client_close(how)
    \/ \E msg \in PeerMessage : peer_send(msg)
    \/ \E how \in {"closed", "dropped"} : peer_inbound_close(how)
    \/ handle_client_request
    \/ handle_client_closed
    \/ handle_peer_message
    \/ handle_peer_closed
    \/ request_timeout
    \/ exit_failed
    \/ wait
    \/ drop_run

SpecConnection == Init /\ [][NextConnection]_vars

NextMinimumPeerVersion ==
    \/ \E network \in Network : new_minimum_peer_version(network)
    \/ \E block_height \in OptionHeight : send_best_tip_height(block_height)
    \/ current
    \/ changed

SpecMinimumPeerVersion == Init /\ [][NextMinimumPeerVersion]_vars

NextAddrV2 ==
    \/ \E r \in Readers : zcash_deserialize(r)
    \/ into_meta_addr

SpecAddrV2 == Init /\ [][NextAddrV2]_vars

NextCrawler ==
    \/ \E peer_set_ready \in BOOLEAN : crawl_transactions(peer_set_ready)
    \/ response_error
    \/ \E transaction_ids \in TransactionIds : handle_response(transaction_ids)
    \/ crawl_transactions_done
    \/ sleep

SpecCrawler == Init /\ [][NextCrawler]_vars

NextOrder ==
    \/ \E known \in StateHashes : round_kind = "none" /\ obtain_tips_start(known)
    \/ /\ round_kind = "none"
       /\ \E rs \in [1..FANOUT -> RoundResponses] : obtain_tips_both_orders(rs)
    \/ /\ round_kind = "none"
       /\ \E t \in CheckedTip, rs \in [1..FANOUT -> RoundResponses] :
              extend_tips_both_orders(t, rs)
    \/ obtain_tips_finish
    \/ extend_tips_finish
    \/ \E ok \in BOOLEAN : request_blocks_hash(ok)

SpecOrder == Init /\ [][NextOrder]_vars

NextDiscoverer ==
    \/ \E kind \in AfterEnd : PeerDiscoverer_new(kind)
    \/ PeerDiscoverer_poll_next
    \/ \E polled \in Polled : forward_discovered_peers(polled)

\* The task that owns the PeerDiscoverer polls it again whenever it is woken.
SpecDiscoverer == Init /\ [][NextDiscoverer]_vars /\ WF_vars(NextDiscoverer)

NextBestTipHeightReceiver ==
    \/ best_tip_height_borrow
    \/ best_tip_height_return
    \/ \E height \in Height : finalized_sender_send(height)
    \/ \E height \in OptionHeight : non_finalized_sender_send(height)

SpecBestTipHeightReceiver == Init /\ [][NextBestTipHeightReceiver]_vars

----------------------------------------------------------------------------
(* Properties of the mempool storage.                                      *)

\* Two transactions spend the same outpoint or reveal the same nullifier.
Overlap(t1, t2) ==
    \/ Range(t1.inputs) \cap Range(t2.inputs) # {}
    \/ Range(t1.sprout) \cap Range(t2.sprout) # {}
    \/ Range(t1.sapling) \cap Range(t2.sapling) # {}
    \/ Range(t1.orchard) \cap Range(t2.orchard) # {}

\* The transaction lists no outpoint and no nullifier twice.
NoRepeatedSpend(tx) ==
    /\ Cardinality(Range(tx.inputs)) = Len(tx.inputs)
    /\ Cardinality(Range(tx.sprout)) = Len(tx.sprout)
    /\ Cardinality(Range(tx.sapling)) = Len(tx.sapling)
    /\ Cardinality(Range(tx.orchard)) = Len(tx.orchard)

\* a is verified, and b is rejected as a spend conflict.
OneVerifiedOtherRejected(a, b) ==
    /\ a \in Range(verified)
    /\ b \notin Range(verified)
    /\ b \in DOMAIN rejected
    /\ rejected[b] = "SpendConflict"

ExactlyOneVerified(t1, t2) ==
    OneVerifiedOtherRejected(t1, t2) \/ OneVerifiedOtherRejected(t2, t1)

\* C1, as stated: in every storage state, after inserting two distinct
\* transactions with overlapping spends one after the other, exactly one of
\* them is verified and the other is rejected with SpendConflict.
C1_AnyState ==
    \A t1 \in prevTx : \A t2 \in ret.tx :
        (ret.op = "insert" /\ t1 # t2 /\ Overlap(t1, t2)) => ExactlyOneVerified(t1, t2)

\* The last two calls were inserts, of t1 and then of t2, and the storage was
\* empty before them.
InsertedBothIntoEmpty(t1, t2) ==
    /\ Len(sinceEmpty) = 2
    /\ sinceEmpty[1].op = "insert" /\ sinceEmpty[1].tx = Some(t1)
    /\ sinceEmpty[2].op = "insert" /\ sinceEmpty[2].tx = Some(t2)

\* C1, amended: starting from an empty storage (a new one or a cleared one),
\* after inserting two distinct transactions with overlapping spends, neither
\* of which lists a spend twice, exactly one of them is verified and the other
\* is rejected with SpendConflict, whichever of the two is inserted first.
C1_FromEmpty ==
    Len(sinceEmpty) = 2 =>
        \A t1 \in sinceEmpty[1].tx : \A t2 \in sinceEmpty[2].tx :
            (/\ InsertedBothIntoEmpty(t1, t2)
             /\ t1 # t2 /\ Overlap(t1, t2)
             /\ NoRepeatedSpend(t1) /\ NoRepeatedSpend(t2))
            => ExactlyOneVerified(t1, t2)

\* Two conflicting transactions were inserted into a cleared storage, the
\* first was accepted and the second rejected.
C1_Witness ==
    /\ Len(sinceEmpty) = 2
    /\ \E t1 \in sinceEmpty[1].tx : \E t2 \in sinceEmpty[2].tx :
        /\ InsertedBothIntoEmpty(t1, t2)
        /\ t1 # t2 /\ Overlap(t1, t2)
        /\ NoRepeatedSpend(t1) /\ NoRepeatedSpend(t2)
        /\ nops = 3
        /\ verified = <<t1>>
        /\ ret.result = "Rejected"

\* C2: no two distinct verified transactions spend the same outpoint or
\* reveal the same Sprout, Sapling or Orchard nullifier.
C2_NoDuplicateSpends ==
    \A i, j \in 1..Len(verified) : i # j => ~Overlap(verified[i], verified[j])

\* The mempool is full of transactions with spends, and the last insert was
\* rejected for a spend conflict.
C2_Witness ==
    /\ Len(verified) = MEMPOOL_SIZE
    /\ \A i \in 1..Len(verified) : Overlap(verified[i], verified[i])
    /\ ret.op = "insert" /\ ret.result = "Rejected"
    /\ \E t \in ret.tx : \E i \in 1..Len(verified) : Overlap(t, verified[i])

\* The step is a successful insert into a full mempool.
InsertOkIntoFull ==
    /\ Len(verified) = MEMPOOL_SIZE
    /\ ret'.op = "insert" /\ ret'.result = "Ok"

\* The mempool stays within MEMPOOL_SIZE, a successful insert into a full
\* mempool leaves it full, and what left the verified set is rejected as s.
EvictionRule(s) ==
    /\ Len(verified') <= MEMPOOL_SIZE
    /\ InsertOkIntoFull =>
          /\ Len(verified') = MEMPOOL_SIZE
          /\ \A t \in Range(verified) \ Range(verified') :
                t \in DOMAIN rejected' /\ rejected'[t] = s

C9_CachedRejection ==
    [][/\ \A tx \in ret'.tx :
            (ret'.op = "insert" /\ tx \in DOMAIN rejected) =>
                ret'.result = rejected[tx] /\ UNCHANGED Storage
       /\ ret'.op # "clear" =>
            \A tx \in DOMAIN rejected : tx \in DOMAIN rejected' /\ rejected'[tx] = rejected[tx]
       /\ ret'.op = "clear" => rejected' = <<>>]_vars

\* An insert returned the SpendConflict cached by an earlier insert.
C9_Witness ==
    /\ ret.op = "insert" /\ ret.result = "SpendConflict"
    /\ \E tx \in ret.tx : tx \in DOMAIN rejected /\ rejected[tx] = "SpendConflict"

\* C10: an insert of a transaction that is in the verified set returns
\* InMempool and changes nothing in the storage: the order of the verified
\* transactions, the rejection cache and the four index sets stay as they are.
C10_InMempoolUnchanged ==
    [][\A tx \in ret'.tx :
          (ret'.op = "insert" /\ tx \in Range(verified)) =>
              ret'.result = "InMempool" /\ UNCHANGED Storage]_vars

\* The older of two verified transactions was inserted again.
C10_Witness ==
    /\ ret.op = "insert" /\ ret.result = "InMempool"
    /\ Len(verified) = 2
    /\ ret.tx = Some(verified[2])

----------------------------------------------------------------------------
(* Properties of the best tip height.                                      *)

\* C6, as stated: the published best tip height is the non-finalized height
\* when there is one, and the finalized height otherwise.
C6_UnwrapOr ==
    sender = IF non_finalized = None THEN finalized ELSE CHOOSE h \in non_finalized : TRUE

\* C6, amended: the published best tip height is the higher of the finalized
\* and the non-finalized height when there is a non-finalized height, and the
\* finalized height otherwise.
C6_Highest ==
    /\ non_finalized = None => sender = finalized
    /\ \A n \in non_finalized : sender = Max(finalized, n)

\* A non-finalized height above the finalized one is published, after the
\* finalized height moved.
C6_Witness ==
    /\ finalized > 0
    /\ \E n \in non_finalized : n > finalized /\ sender = n
    /\ Len(tipLog) = 3

\* The arguments of the calls of one setter in the log.
ArgsOf(op) == UNION {tipLog[i].arg : i \in {j \in 1..Len(tipLog) : tipLog[j].op = op}}

CallsOf(op) == Cardinality({j \in 1..Len(tipLog) : tipLog[j].op = op})

\* Each setter was called at most once since new(), and one of them was called.
SetOnceEach ==
    /\ Len(tipLog) \in 1..2
    /\ CallsOf("set_finalized_height") <= 1
    /\ CallsOf("set_best_non_finalized_height") <= 1

\* C7: on a new BestTipHeight, after at most one call of each setter, in
\* either order, the receiver reads the highest of the two heights when both
\* were set, and the height that was set when only one was.
C7_HighestOfSet ==
    SetOnceEach =>
        LET f == ArgsOf("set_finalized_height")
            n == ArgsOf("set_best_non_finalized_height")
        IN  /\ \A fh \in f : \A nh \in n : sender = Max(fh, nh)
            /\ n = {} => \A fh \in f : sender = fh
            /\ f = {} => \A nh \in n : sender = nh

\* The non-finalized height was set and then a higher finalized height, which
\* replaced it as the best tip.
C7_Witness ==
    /\ Len(tipLog) = 2
    /\ tipLog[1].op = "set_best_non_finalized_height"
    /\ tipLog[2].op = "set_finalized_height"
    /\ \E nh \in tipLog[1].arg : \E fh \in tipLog[2].arg : fh > nh /\ sender = fh

----------------------------------------------------------------------------
(* Properties of the gossiped address validation.                          *)

\* C3: every last_seen time validate_addrs yields, for any batch and any
\* limit, is at most the limit.
C3_NoLastSeenAfterLimit ==
    \A out \in validated_peers :
        \A i \in 1..Len(out) : out[i] <= last_seen_limit

\* A batch with a time after the limit was validated: the offset was applied
\* to all of its times and all of them were yielded.
C3_Witness ==
    /\ \E i \in 1..Len(gossiped_peers) : gossiped_peers[i] > last_seen_limit
    /\ \E out \in validated_peers :
          /\ Len(out) = Len(gossiped_peers)
          /\ out # gossiped_peers

----------------------------------------------------------------------------
(* Properties of the peer error slot.                                      *)

\* What the calls returned agrees with the slot.
SlotAgrees ==
    /\ slot_ret.op = "try_update_error" /\ slot_ret.result = "Ok"
          => error_slot = slot_ret.e
    /\ slot_ret.op = "try_update_error" /\ slot_ret.result = "AlreadyErrored"
          => error_slot # None
    /\ slot_ret.op = "try_get_error" => slot_ret.value = error_slot
    /\ \A h \in Holders : observed[h] # None => observed[h] = error_slot

\* C4: the slot is empty at first; once it holds an error it keeps that error:
\* a later try_update_error fails and leaves it as it is, and every holder
\* that reads an error (Client, Connection, heartbeat task) reads that error.
C4_WriteOnce ==
    /\ error_slot = None
    /\ [][/\ error_slot # None => error_slot' = error_slot
          /\ error_slot # None /\ slot_ret' # slot_ret /\ slot_ret'.op = "try_update_error"
                => slot_ret'.result = "AlreadyErrored"]_vars
    /\ []SlotAgrees

\* Every holder has read the error of the first writer, and the last call was
\* an update with another error, which failed.
C4_Witness ==
    /\ slot_ret.op = "try_update_error"
    /\ slot_ret.result = "AlreadyErrored"
    /\ slot_ret.e # error_slot
    /\ \A h \in Holders : observed[h] = error_slot

----------------------------------------------------------------------------
(* Properties of the chain syncer.                                         *)

\* C5: at every moment of ChainSync::sync at most lookahead_limit blocks are
\* in flight.
C5_AtMostLookahead ==
    sync_pc # "new" => in_flight <= lookahead_limit

\* C5, amended: an ExtendTips starts with at most lookahead_limit
\* blocks in flight, and at every moment the blocks in flight are at most
\* lookahead_limit more than the ones the latest ObtainTips or ExtendTips
\* queued.
C5_LookaheadPlusRound ==
    /\ sync_pc = "extend_tips" => in_flight <= lookahead_limit
    /\ sync_pc # "new" => in_flight <= lookahead_limit + round_requested

\* An ExtendTips that started with lookahead_limit blocks in flight has queued
\* its downloads, and the syncer is about to extend the tips again.
C5_Witness ==
    /\ sync_pc = "poll"
    /\ round_requested > 0
    /\ in_flight = lookahead_limit + round_requested

----------------------------------------------------------------------------
(* Properties of the mempool storage, continued.                           *)

\* The transaction spends something one of the four index sets holds.
SpendsIndexed(tx) ==
    \/ Range(tx.inputs) \cap spent_outpoints # {}
    \/ Range(tx.sprout) \cap sprout_nullifiers # {}
    \/ Range(tx.sapling) \cap sapling_nullifiers # {}
    \/ Range(tx.orchard) \cap orchard_nullifiers # {}

\* An insert that gets to the spend conflict check, of a transaction that
\* spends something an index set holds already, caches SpendConflict for the
\* transaction and returns result.
ConflictFound(result) ==
    \A tx \in ret'.tx :
        (/\ nops' = nops + 1
         /\ ret'.op = "insert"
         /\ tx \notin DOMAIN rejected
         /\ tx \notin Range(verified)
         /\ SpendsIndexed(tx))
        => /\ tx \in DOMAIN rejected'
           /\ rejected'[tx] = "SpendConflict"
           /\ ret'.result = result

\* C11: when Storage::insert finds that the transaction spends something
\* already in one of the four index sets, it caches SpendConflict for the id
\* and returns the SpendConflict reason.
C11_ReturnsSpendConflict == [][ConflictFound("SpendConflict")]_vars

\* C11, amended: it caches SpendConflict for the id and returns the generic
\* MempoolError::Rejected.
C11_ReturnsRejected == [][ConflictFound("Rejected")]_vars

\* The last insert found a conflict with a verified transaction: it returned
\* Rejected and the cache has SpendConflict for it.
C11_Witness ==
    /\ ret.op = "insert"
    /\ ret.result = "Rejected"
    /\ \E tx \in ret.tx :
          /\ tx \in DOMAIN rejected
          /\ rejected[tx] = "SpendConflict"
          /\ \E v \in Range(verified) : Overlap(tx, v)

----------------------------------------------------------------------------
(* Properties of the mempool service.                                      *)

StorageIsEmpty ==
    /\ verified = <<>>
    /\ rejected = <<>>
    /\ spent_outpoints = {}
    /\ sprout_nullifiers = {}
    /\ sapling_nullifiers = {}
    /\ orchard_nullifiers = {}

\* C12: each Mempool::poll_ready run first clears the whole storage if the
\* chain tip was reset since the previous check or the syncer is not close to
\* the tip, and leaves it as it is otherwise; no finished download is
\* inserted before that.
C12_ClearedFirst ==
    [][/\ pool_pc = "idle" /\ pool_pc' # "idle"
            => /\ tx_ready' = tx_ready
               /\ IF chain_reset \/ ~close_to_tip
                  THEN StorageIsEmpty'
                  ELSE UNCHANGED Storage
       /\ pool_pc = "idle" /\ pool_pc' = "idle" => UNCHANGED Storage]_vars

\* A poll_ready run has just cleared a storage that the insert before it had
\* left something in.
C12_Witness ==
    /\ pool_pc = "poll_next"
    /\ ret.op = "clear"
    /\ prevTx # None
    /\ StorageIsEmpty

\* C13: while the syncer is not close to the tip, the verified set is empty
\* at the end of every Mempool::poll_ready run.
C13_DisabledWhileSyncing ==
    pool_pc = "idle" /\ syncing_run /\ ~close_to_tip => verified = <<>>

----------------------------------------------------------------------------
(* Properties of the chain syncer, continued.                              *)

\* The errors after which the sync goes on.
ContinuationError(e) ==
    \/ e.variant = "Invalid" /\ e.inner = "Checkpoint::AlreadyVerified"
    \/ e.variant = "Invalid" /\ e.inner = "Block::Block::AlreadyInChain"
    \/ e.variant = "CancelledDuringDownload"
    \/ e.variant = "CancelledDuringVerification"
    \/ e.variant = "BehindTipHeightLimit"
    \/ /\ e.variant = "Invalid" /\ e.inner = "Block::Commit"
       /\ "block is already committed to the state" \in e.source
    \/ e.variant = "DownloadFailed" /\ "NotFound" \in e.source

\* The loop over the tips takes a result from the downloads.
TakesResponse ==
    /\ sync_pc \in {"poll", "wait"}
    /\ in_flight' = in_flight - 1

\* C14: after a download or verify error the loop over the tips goes on
\* exactly when the error is already-verified, already-in-chain, cancelled,
\* behind the tip height limit, already committed, or a download failure that
\* reports NotFound; after every other error the outer sync loop restarts.
C14_RestartUnlessContinuation ==
    [][TakesResponse /\ last_rsp' # Ok
          => /\ ContinuationError(last_rsp') => sync_pc' = sync_pc
             /\ ~ContinuationError(last_rsp') => sync_pc' = "sync"]_vars

\* The syncer waits for pending blocks, and goes on waiting after a download
\* failed with NotFound.
C14_Witness ==
    /\ sync_pc = "wait"
    /\ in_flight > lookahead_limit
    /\ last_rsp.variant = "DownloadFailed"
    /\ "NotFound" \in last_rsp.source

\* C15: an ObtainTips that follows a restart error of the download stream or
\* a failed ObtainTips or ExtendTips begins with the prospective tips cleared,
\* the downloads in flight cancelled and SYNC_RESTART_DELAY slept; the first
\* ObtainTips after genesis begins with no delay and no cancellation; a
\* continuation error does not restart the sync.
C15_RestartAfterDelay ==
    /\ [](/\ sync_pc = "obtain_tips" /\ restart_cause \in {"restart error", "round failed"}
             => /\ tips_len = 0
                /\ in_flight = 0
                /\ cancelled
                /\ slept = "SYNC_RESTART_DELAY"
          /\ sync_pc = "obtain_tips" /\ restart_cause = "start"
             => /\ ~cancelled
                /\ slept = "")
    /\ [][TakesResponse /\ ContinuationError(last_rsp')
             => sync_pc' # "sync" /\ UNCHANGED <<cancelled, slept, tips_len>>]_vars

\* An ObtainTips is about to begin after a restart error, with the downloads
\* cancelled and the delay slept.
C15_Witness ==
    /\ sync_pc = "obtain_tips"
    /\ restart_cause = "restart error"
    /\ cancelled
    /\ slept = "SYNC_RESTART_DELAY"
    /\ ~ContinuationError(last_rsp)

\* Where ChainSync::sync is once request_genesis has returned Ok.
AfterGenesis == {"sync", "obtain_tips", "request_blocks", "tips", "poll", "wait", "extend_tips"}

\* C19: ChainSync::sync makes no ObtainTips or ExtendTips request before the
\* state has the genesis block: while it lacks it the syncer downloads the
\* genesis block, and after a failed download or verification it sleeps
\* GENESIS_TIMEOUT_RETRY and tries again.
C19_GenesisFirst ==
    /\ [](sync_pc \in AfterGenesis => genesis_in_state)
    /\ [][/\ sync_pc = "request_genesis" /\ ~genesis_in_state /\ sync_pc' = "genesis_next"
             => in_flight' = in_flight + 1
          /\ sync_pc = "request_genesis" /\ ~genesis_in_state
             => sync_pc' \in {"request_genesis", "genesis_next", "returned"}
          /\ sync_pc = "genesis_next" /\ sync_pc' # sync_pc
             => /\ sync_pc' = "request_genesis"
                /\ in_flight' = in_flight - 1
                /\ ~genesis_in_state' => slept' = "GENESIS_TIMEOUT_RETRY"]_vars

\* The genesis download failed, the syncer slept GENESIS_TIMEOUT_RETRY and is
\* back at the check of the state for the genesis block.
C19_Witness ==
    /\ sync_pc = "request_genesis"
    /\ ~genesis_in_state
    /\ in_flight = 0
    /\ slept = "GENESIS_TIMEOUT_RETRY"

----------------------------------------------------------------------------
(* Properties of the responses to ObtainTips and ExtendTips.               *)

\* The loop of obtain_tips takes a response, and runs its body on it.
ObtainTipsTakes == tips_pc = "obtain_tips" /\ res = None /\ res' # None

\* The loop of extend_tips takes a response, and runs its body on it.
ExtendTipsTakes == tips_pc = "extend_tips" /\ res = None /\ res' # None

\* The hashes of s from the one at from to the one at to, in order.
Slice(s, from, to) == [i \in 1..(IF to >= from THEN to - from + 1 ELSE 0) |-> s[from + i - 1]]

\* The hashes of a response without the last one, from the first one the
\* state does not have.
UnknownTail(s) ==
    LET unknown == {i \in 1..(Len(s) - 1) : s[i] \notin state_hashes}
    IN  IF unknown = {} THEN <<>>
        ELSE Slice(s, CHOOSE i \in unknown : \A j \in unknown : i <= j, Len(s) - 1)

\* The tip made of the last two hashes of a tail.
TipOfTail(tail) == [tip |-> tail[Len(tail) - 1], expected_next |-> tail[Len(tail)]]

\* What a response adds when the round goes on with tail: nothing when tail
\* has fewer than two hashes; else the hashes of tail, and no other tip than
\* the one of its last two hashes, which is added when its expected_next was
\* not in the download set.
AddsTail(tail) ==
    IF Len(tail) >= 2
    THEN /\ Range(download_set') = Range(download_set) \cup Range(tail)
         /\ prospective_tips' \ prospective_tips \subseteq {TipOfTail(tail)}
         /\ tail[Len(tail)] \notin Range(download_set)
                => TipOfTail(tail) \in prospective_tips'
    ELSE /\ download_set' = download_set
         /\ prospective_tips' = prospective_tips

\* C17: obtain_tips goes on with the hashes of a response from the first one
\* the state does not have, without the last hash of the response; the new
\* tip is made of the last two of them, in this order, and a response that
\* leaves fewer than two of them adds no tip and no download.
C17_ObtainTipsTail ==
    [][ObtainTipsTakes =>
          \A r \in res' : AddsTail(IF r.ok THEN UnknownTail(r.hashes) ELSE <<>>)]_vars

\* obtain_tips has made a tip of a response whose first hash the state has,
\* and whose last hash is in no tip and not in the download set.
C17_Witness ==
    /\ tips_pc = "obtain_tips"
    /\ \E r \in res :
          /\ Len(r.hashes) >= 4
          /\ r.hashes[1] \in state_hashes
          /\ Len(UnknownTail(r.hashes)) = Len(r.hashes) - 2
          /\ r.hashes[Len(r.hashes)] \notin Range(download_set)
          /\ prospective_tips = {TipOfTail(UnknownTail(r.hashes))}
          /\ download_set = UnknownTail(r.hashes)

\* extend_tips has taken a response whose second hash, and not its first, is
\* the expected_next of the tip, with at least two hashes between that hash
\* and the last one.
SpuriousFirstHash(t, s) ==
    /\ Len(s) >= 5
    /\ s[1] # t.expected_next
    /\ s[2] = t.expected_next

\* C16 as stated: of such a response extend_tips goes on with the hashes from
\* the expected one to the one before the last.
C16_FromExpectedHash ==
    [][ExtendTipsTakes =>
          \A t \in tip, r \in res' :
              r.ok /\ SpuriousFirstHash(t, r.hashes)
                  => AddsTail(Slice(r.hashes, 2, Len(r.hashes) - 1))]_vars

\* C16: of a response whose second hash, and not its first, is the
\* expected_next of the tip, extend_tips goes on with the hashes after the
\* expected one, up to the one before the last: these are added to the
\* download set, and the new tip is made of the last two of them.
C16_AfterExpectedHash ==
    [][ExtendTipsTakes =>
          \A t \in tip, r \in res' :
              r.ok /\ Len(r.hashes) >= 2
                   /\ r.hashes[1] # t.expected_next /\ r.hashes[2] = t.expected_next
                  => AddsTail(Slice(r.hashes, 3, Len(r.hashes) - 1))]_vars

\* extend_tips has made the tip of the third and the fourth hash of a response
\* of five hashes whose second hash is the expected one, and has queued these
\* two hashes only.
C16_Witness ==
    /\ tips_pc = "extend_tips"
    /\ \E t \in tip, r \in res :
          /\ r.ok
          /\ SpuriousFirstHash(t, r.hashes)
          /\ Len(r.hashes) = 5
          /\ t.expected_next \notin {r.hashes[3], r.hashes[4]}
          /\ download_set = <<r.hashes[3], r.hashes[4]>>
          /\ prospective_tips = {[tip |-> r.hashes[3], expected_next |-> r.hashes[4]]}

\* The hashes of the response the round has taken that it goes on with.
UsedHashes ==
    IF res' = None THEN <<>>
    ELSE LET r == CHOOSE r \in res' : TRUE
             used == IF ~r.ok THEN <<>>
                     ELSE IF tips_pc = "obtain_tips" THEN UnknownTail(r.hashes)
                     ELSE LET t == CHOOSE t \in tip : TRUE
                              s == r.hashes
                          IN  IF s # <<>> /\ s[1] = t.expected_next
                              THEN Slice(s, 2, Len(s) - 1)
                              ELSE IF Len(s) >= 2 /\ s[2] = t.expected_next
                              THEN Slice(s, 3, Len(s) - 1)
                              ELSE <<>>
         IN  IF Len(used) >= 2 THEN used ELSE <<>>

\* The place of the first occurrence of hash in s.
FirstAt(s, hash) == CHOOSE i \in 1..Len(s) : s[i] = hash /\ \A j \in 1..(i - 1) : s[j] # hash

NoHashTwice(s) == \A i, j \in 1..Len(s) : s[i] = s[j] => i = j

\* A response leaves the download set as it was and appends to it the hashes
\* it goes on with that the set did not have, each once, in their order.
AppendsNewHashes ==
    LET before == Len(download_set)
        added == Slice(download_set', before + 1, Len(download_set'))
    IN  /\ Len(download_set') >= before
        /\ Slice(download_set', 1, before) = download_set
        /\ Range(added) = Range(UsedHashes) \ Range(download_set)
        /\ NoHashTwice(added)
        /\ \A i, j \in 1..Len(added) :
              i < j => FirstAt(UsedHashes, added[i]) < FirstAt(UsedHashes, added[j])

\* request_blocks has asked for the first hashes of the download set, in the
\* order of the set.
RequestedInOrder ==
    /\ Len(requested) <= Len(download_set)
    /\ requested = Slice(download_set, 1, Len(requested))
    /\ NoHashTwice(requested)

\* C18: in a round of ObtainTips or ExtendTips each response appends to the
\* download set the hashes it adds, in its order, after the hashes of the
\* responses before it; the downloads are requested in the order of the
\* set, and no hash is requested twice.
C18_DownloadSetOrder ==
    /\ [][ObtainTipsTakes \/ ExtendTipsTakes => AppendsNewHashes]_vars
    /\ []RequestedInOrder

\* request_blocks has asked for every hash of a download set of three hashes.
C18_Witness ==
    /\ tips_pc = "idle"
    /\ Len(download_set) = 3
    /\ requested = download_set

----------------------------------------------------------------------------
(* Properties of the offset of the gossiped last_seen times.               *)

\* The latest last_seen time of a batch that has an entry.
MaxTs(peers) == CHOOSE t \in Range(peers) : \A i \in 1..Len(peers) : peers[i] <= t

\* max(0, max_ts - L)
OffsetOf(peers, limit) ==
    IF peers # <<>> /\ MaxTs(peers) > limit THEN MaxTs(peers) - limit ELSE 0

\* The entries of the batch, in their order, each reduced by the offset.
ShiftedBack(peers, limit) ==
    [i \in 1..Len(peers) |-> peers[i] - OffsetOf(peers, limit)]

\* C20 as stated: the output is the batch, in its order, with every last_seen
\* time reduced by max(0, max_ts - L), whatever the batch.
C20_AlwaysShiftedBack ==
    \A out \in validated_peers : out = ShiftedBack(gossiped_peers, last_seen_limit)

\* C20: the output of validate_addrs is the batch, in its order, with every
\* last_seen time reduced by max(0, max_ts - L), unless this takes an entry
\* below time zero: then the output has no entry. A batch whose latest time is
\* at or before L comes out as it went in.
C20_ShiftedBackOrRejected ==
    \A out \in validated_peers :
        LET shifted == ShiftedBack(gossiped_peers, last_seen_limit)
        IN  /\ out = IF \E i \in 1..Len(shifted) : shifted[i] < 0 THEN <<>> ELSE shifted
            /\ OffsetOf(gossiped_peers, last_seen_limit) = 0 => out = gossiped_peers

\* validate_addrs has shifted back a batch with one entry after the limit and
\* one before it.
C20_Witness ==
    \E out \in validated_peers :
        /\ Len(out) >= 2
        /\ \E i, j \in 1..Len(out) :
              /\ gossiped_peers[i] > last_seen_limit
              /\ gossiped_peers[j] < last_seen_limit
              /\ out[j] < gossiped_peers[j]

\* The offset would take an entry of the batch below time zero.
OffsetUnderflows(peers, limit) ==
    \E i \in 1..Len(peers) : peers[i] < OffsetOf(peers, limit)

\* C21: when the offset max_ts - L would underflow the last_seen time of an
\* entry of the batch, validate_addrs yields no entry at all.
C21_UnderflowRejectsBatch ==
    \A out \in validated_peers :
        OffsetUnderflows(gossiped_peers, last_seen_limit) => out = <<>>

\* validate_addrs has rejected a batch of three entries, one of which the
\* offset would underflow, and one of which is at the limit.
C21_Witness ==
    /\ validated_peers = Some(<<>>)
    /\ Len(gossiped_peers) = 3
    /\ OffsetUnderflows(gossiped_peers, last_seen_limit)
    /\ \E i \in 1..Len(gossiped_peers) : gossiped_peers[i] = last_seen_limit

----------------------------------------------------------------------------
(* Properties of the readiness of the peer Client.                         *)

\* The heartbeat task runs, and has its end of the shutdown channel.
HeartbeatRuns == heartbeat_task = "running" /\ shutdown_receiver # "dropped"

\* The request channel is open at both ends.
RequestChannelOpen == ~server_tx_closed /\ request_receiver = "open"

RequestChannelFull == requests_queued >= REQUEST_CHANNEL_SIZE

\* The error slot is empty, the request channel is open and not full, and the
\* two tasks run.
ReadyConditions ==
    /\ client_error_slot = None
    /\ RequestChannelOpen
    /\ ~RequestChannelFull
    /\ connection_task = "running"
    /\ HeartbeatRuns

\* C22 as stated: the readiness check returns Ready when the slot is empty,
\* the channel open and not full and the tasks running, and an error in every
\* other case.
C22_ReadyOrError ==
    [][poll_ready =>
          ready_ret' = IF ReadyConditions THEN "Ready" ELSE "Err"]_vars

\* C22: the readiness check returns Ready exactly when the slot is empty, the
\* channel open and not full and the tasks running. It stays pending only
\* when the channel is full, and does so when nothing else is wrong; it
\* panics only when the connection task has panicked; in every other case it
\* resolves to an error.
C22_ReadyIffAllWell ==
    [][poll_ready =>
          /\ ready_ret' = "Ready" <=> ReadyConditions
          /\ ready_ret' = "Pending" => RequestChannelFull
          /\ ready_ret' = "panic" => connection_task = "panicked"
          /\ ready_ret' \in {"Ready", "Pending", "panic", "Err"}
          /\ (/\ client_error_slot = None
              /\ RequestChannelOpen
              /\ RequestChannelFull
              /\ connection_task = "running"
              /\ HeartbeatRuns) => ready_ret' = "Pending"]_vars

\* The readiness check of a Client has returned Ready.
C22_Witness ==
    /\ client = "alive"
    /\ ready_ret = "Ready"
    /\ ReadyConditions

\* The Client is shut down: its slot has an error, it has closed the request
\* channel, and it has told the heartbeat task to stop.
ClientShutDown ==
    /\ client_error_slot # None
    /\ server_tx_closed
    /\ ~shutdown_tx
    /\ shutdown_receiver # "waiting"

\* C23: when the readiness check resolves to an error, and when the Client is
\* dropped, the slot holds an error, the request channel is closed and the
\* heartbeat task has been told to stop, from then on.
C23_ErrorShutsDown ==
    /\ [][(poll_ready /\ ready_ret' = "Err") \/ drop_client => ClientShutDown']_vars
    /\ [][ClientShutDown => ClientShutDown']_vars

\* The readiness check has found the heartbeat task exited, with an empty
\* slot, and has told the handle that the heartbeat is to stop.
C23_Witness ==
    /\ ready_ret = "Err"
    /\ client = "alive"
    /\ heartbeat_task = "exited"
    /\ client_error_slot = Some("HeartbeatTaskExited")
    /\ shutdown_receiver = "cancelled"
    /\ ClientShutDown

----------------------------------------------------------------------------
(* Properties of the peer Connection.                                      *)

\* One of the events that end the run loop has happened.
EndingEvent ==
    \/ client_tx # "open"
    \/ peer_inbound_tx # "open"
    \/ started_failed
    \/ run = "dropped"

\* The run loop has something to do: one of its steps is enabled.
CanStep ==
    /\ Running
    /\ \/ conn_state = "Failed"
       \/ conn_state = "AwaitingResponse"
       \/ client_requests > 0
       \/ client_tx # "open"
       \/ peer_message # None
       \/ peer_inbound_tx # "open"

\* What the tests find after the run loop has ended.
ConnectionShutDown ==
    /\ conn_error_slot # None
    /\ client_rx_closed
    /\ peer_rx_closed
    /\ (requests_sent = 0 /\ messages_sent = 0) =>
           (peer_outbound = 0 /\ inbound_requests = 0)

DerivedBestTip(f, n) == IF n = None THEN f ELSE Max(f, CHOOSE h \in n : TRUE)

\* The value published last, the genesis height when none was published.
LastPublished == IF published = <<>> THEN 0 ELSE published[Len(published)]

\* C25: a call of set_finalized_height or set_best_non_finalized_height sends a
\* value on the watch channel exactly when the best tip height derived from
\* the two heights after the call differs from the value published last (the
\* genesis height at first), and it sends that height; so no two consecutive
\* published values are equal, and the first one is not the genesis height.
C25_SendsOnChange ==
    /\ [][/\ sent' <=> (DerivedBestTip(finalized', non_finalized') # sender)
          /\ sent' => /\ sender' = DerivedBestTip(finalized', non_finalized')
                      /\ Len(tipLog) < LoggedCalls =>
                             published' = Append(published, sender')
          /\ ~sent' => (sender' = sender /\ published' = published)]_vars
    /\ [](/\ \A i \in 1..(Len(published) - 1) : published[i] # published[i + 1]
          /\ published # <<>> => published[1] # 0
          /\ Len(tipLog) < LoggedCalls => LastPublished = sender)

\* finalized = 1, then non-finalized = Some(3), Some(2), None have published
\* 1, 3, 2, 1.
C25_Witness ==
    /\ Len(tipLog) = 4
    /\ tipLog[1] = [op |-> "set_finalized_height", arg |-> Some(1)]
    /\ tipLog[2] = [op |-> "set_best_non_finalized_height", arg |-> Some(3)]
    /\ tipLog[3] = [op |-> "set_best_non_finalized_height", arg |-> Some(2)]
    /\ tipLog[4] = [op |-> "set_best_non_finalized_height", arg |-> None]
    /\ published = <<1, 3, 2, 1>>
    /\ finalized = 1
    /\ non_finalized = None
    /\ ~sent

----------------------------------------------------------------------------
(* More properties of the mempool storage.                                 *)

\* Since the storage was new, insert was called MEMPOOL_SIZE + 1 times and
\* returned Ok each time, and nothing else was called.
InsertedOneTooMany ==
    /\ nops = MEMPOOL_SIZE + 1
    /\ Len(sinceEmpty) = 3
    /\ \A i \in 1..2 : sinceEmpty[i].op = "insert" /\ sinceEmpty[i].result = "Ok"
    /\ ret.op = "insert" /\ ret.result = "Ok"

\* C26: after MEMPOOL_SIZE + 1 inserts into a new storage that all returned
\* Ok, the verified set holds exactly the last MEMPOOL_SIZE transactions
\* inserted, newest first, and the rejection cache holds exactly the first
\* transaction inserted.
C26_KeepsLastInserted ==
    InsertedOneTooMany =>
        \A t1 \in sinceEmpty[1].tx : \A t2 \in sinceEmpty[2].tx : \A t3 \in ret.tx :
            /\ Cardinality({t1, t2, t3}) = 3
            /\ verified = <<t3, t2>>
            /\ DOMAIN rejected = {t1}

C26_Witness ==
    /\ InsertedOneTooMany
    /\ Len(verified) = MEMPOOL_SIZE
    /\ \E t1 \in sinceEmpty[1].tx : t1 \in DOMAIN rejected /\ t1 \notin Range(verified)

\* The place of a transaction in a queue that holds it.
IndexOf(queue, tx) == CHOOSE i \in 1..Len(queue) : queue[i] = tx

\* The transactions of the second queue are in the order they have in the first.
SameRelativeOrder(before, after) ==
    \A i, j \in 1..Len(after) :
        i < j => IndexOf(before, after[i]) < IndexOf(before, after[j])

\* C27: remove(txid) with a verified transaction of that id returns it and
\* leaves in the verified set exactly the other transactions, in their previous
\* relative order, so that contains(txid) is false afterwards; with no verified
\* transaction of that id it returns None and changes nothing; either way the
\* rejection cache stays as it is.
C27_RemovesExactlyThat ==
    [][(ret'.op = "remove" /\ nops' = nops + 1) =>
          \A txid \in ret'.tx :
              /\ rejected' = rejected
              /\ IF txid \in Range(verified)
                 THEN /\ ret'.result = "Some"
                      /\ Range(verified') = Range(verified) \ {txid}
                      /\ Len(verified') = Len(verified) - 1
                      /\ SameRelativeOrder(verified, verified')
                      /\ txid \notin Range(verified')
                 ELSE /\ ret'.result = "None"
                      /\ Storage' = Storage]_vars

\* The third call removed a verified transaction, and another one stays.
C27_Witness ==
    /\ ret.op = "remove"
    /\ ret.result = "Some"
    /\ ret.tx \cap Range(verified) = {}
    /\ Len(verified) = 1
    /\ nops = 3

----------------------------------------------------------------------------
(* Properties of the minimum peer version.                                 *)

----------------------------------------------------------------------------
(* Properties of the addrv2 entries.                                       *)

\* C29: the deserialization of an addrv2 entry fails when addr is longer than
\* 512 bytes, whatever the network ID, and when the network ID is 0x01 and
\* addr is not 4 bytes or the network ID is 0x02 and addr is not 16 bytes; for
\* any other network ID, an entry the reader has in full with an addr of at
\* most 512 bytes gives AddrV2::Unimplemented without error, with the reader
\* past the whole entry and no further, and it converts to no MetaAddr.
C29_AddrV2Entry ==
    \A r \in reader : \A a \in addr_v2 :
        /\ r.addr_len > 512 => ~a.ok
        /\ (r.network_id = 1 /\ r.addr_len # 4) => ~a.ok
        /\ (r.network_id = 2 /\ r.addr_len # 16) => ~a.ok
        /\ (r.network_id \notin {1, 2} /\ r.addr_len <= 512 /\ r.complete) =>
               /\ a.ok
               /\ a.variant = "Unimplemented"
               /\ a.consumed = 9 + (IF r.addr_len < 253 THEN 0 ELSE 2) + r.addr_len
               /\ meta_addr # "Some"

\* An entry of an unknown network with an addr of 512 bytes was read and
\* converted.
C29_Witness ==
    /\ \E r \in reader : r.network_id = 3 /\ r.addr_len = 512 /\ r.complete
    /\ \E a \in addr_v2 : a.ok /\ a.variant = "Unimplemented"
    /\ meta_addr = "None"

----------------------------------------------------------------------------
(* Properties of the mempool crawler.                                      *)

\* C30: once the crawler has handled the responses of a crawl, every
\* transaction ID it has received from a peer that is not in the mempool is
\* queued to be downloaded and verified.
C30_MissingIdsQueued ==
    crawler_pc \in {"sleep", "crawl"} =>
        \A id \in received_ids : id \notin Range(verified) => id \in tx_downloads

----------------------------------------------------------------------------
(* Properties of the rounds of the chain syncer under both orders of       *)
(* arrival.                                                                *)

\* C31: the prospective tips a round of obtain_tips or of extend_tips leaves
\* are the same for both orders in which its responses arrive.
C31_TipsWhateverOrder ==
    round_in_order.prospective_tips = round_reversed.prospective_tips

\* The first hash of the response, or its second, is the tip's expected_next.
MatchesExpected(t, s) ==
    \/ Len(s) >= 1 /\ s[1] = t.expected_next
    \/ Len(s) >= 2 /\ s[2] = t.expected_next

\* C32: ExtendTips uses a response only if its first hash is the tip's
\* expected_next, or its second hash is: the loop body run on a response that
\* is an error, is empty, is one other hash, or starts with two other hashes
\* leaves the download set and the prospective tips as they were.
C32_UsesMatchingOnly ==
    [][(tips_pc = "extend_tips" /\ res = None /\ res' # None)
          => \A r \in res', t \in tip :
                 (download_set' # download_set \/ prospective_tips' # prospective_tips)
                     => (r.ok /\ MatchesExpected(t, r.hashes))]_vars

\* The second response of a fan out has the expected hash as its third hash,
\* with more hashes after it, and the round has taken nothing from it.
C32_Witness ==
    /\ tips_pc = "extend_tips"
    /\ responses = 0
    /\ \E r \in res, t \in tip :
           /\ r.ok
           /\ Len(r.hashes) = 5
           /\ ~MatchesExpected(t, r.hashes)
           /\ r.hashes[3] = t.expected_next
           /\ r.hashes[4] # r.hashes[5]
    /\ download_set = <<>>
    /\ prospective_tips = {}

\* The round's download set has a hash the state contains.
BehindTip == \E i \in 1..Len(download_set) : state_contains(download_set[i])

\* C33: ObtainTips requests no download of a hash the state contains: a
\* round whose download set has such a hash ends as failed with nothing handed
\* to request_blocks and nothing requested, and from a failed round the sync
\* loop goes nowhere but to a new ObtainTips with no prospective tip.
C33_NoDownloadBehindTip ==
    /\ [](\A i \in 1..Len(requested) : ~state_contains(requested[i]))
    /\ [](\A i \in 1..Len(blocks_iter) : ~state_contains(blocks_iter[i]))
    /\ [][(tips_pc = "obtain_tips" /\ tips_pc' # "obtain_tips" /\ BehindTip)
             => (tips_pc' = "failed" /\ blocks_iter' = <<>> /\ requested' = <<>>)]_vars
    /\ [][tips_pc = "failed"
             => (tips_pc' = "obtain_tips" /\ prospective_tips' = {}
                 /\ requested' = <<>>)]_vars

\* A round has failed with a download set of one hash the state contains and
\* one it does not.
C33_Witness ==
    /\ tips_pc = "failed"
    /\ BehindTip
    /\ \E i \in 1..Len(download_set) : ~state_contains(download_set[i])
    /\ requested = <<>>

\* The hashes the loop body goes on with for the response r of the round.
RoundUnknownHashes(r) ==
    IF ~r.ok THEN <<>>
    ELSE IF round_kind = "obtain_tips" THEN obtain_unknown_hashes(r.hashes)
    ELSE extend_unknown_hashes(CHOOSE t \in tip : TRUE, r.hashes)

\* The new hashes collected from the responses of the round, whatever the
\* order they came in: the ones of the responses that give a tip.
Collected ==
    UNION {Range(RoundUnknownHashes(arrived[i])) :
              i \in {k \in 1..Len(arrived) : Len(RoundUnknownHashes(arrived[k])) >= 2}}

\* C34: the length a round pushes to the recent sync lengths is the number of
\* distinct new hashes of all its responses, and the same when the responses
\* come in the other order; a round pushes one length when it gets to its
\* downloads and none when it fails before, and no download is requested
\* before the length is pushed.
C34_PushedLength ==
    /\ [][(round_kind # "none" /\ pushed_lengths' # pushed_lengths)
             => /\ pushed_lengths' = <<Cardinality(Collected)>>
                /\ pushed_lengths' = <<Len(round_reversed.download_set)>>
                /\ requested = <<>>
                /\ blocks_iter' = download_set]_vars
    /\ [][(round_kind # "none" /\ tips_pc \in {"obtain_tips", "extend_tips"}
           /\ tips_pc' \in {"idle", "request_blocks"})
             => Len(pushed_lengths') = 1]_vars
    /\ [](tips_pc = "failed" /\ requested = <<>> /\ blocks_iter = <<>> /\ BehindTip
             => pushed_lengths = <<>>)
    /\ [](requested # <<>> => Len(pushed_lengths) = 1)
    /\ [](Len(pushed_lengths) <= 1)

\* An ObtainTips round has pushed 2 for two responses of two new hashes each,
\* the same two, which the other order of arrival puts in the download set
\* the other way round, and has requested a download.
C34_Witness ==
    /\ round_kind = "obtain_tips"
    /\ pushed_lengths = <<2>>
    /\ \A i \in 1..Len(arrived) : Len(RoundUnknownHashes(arrived[i])) = 2
    /\ round_in_order.download_set # round_reversed.download_set
    /\ requested # <<>>

\* More blocks are in flight than lookahead_limit.
AboveLimit == sync_pc # "new" /\ in_flight > lookahead_limit

\* C35: ChainSync::sync starts an ExtendTips round only with at most
\* lookahead_limit downloads in flight; while more are in flight the syncer
\* asks for no tips and no blocks, and only waits for downloads to finish,
\* restarting when one fails with an error that restarts the sync.
C35_NoRequestAboveLimit ==
    /\ [](sync_pc = "extend_tips" => in_flight <= lookahead_limit)
    /\ [](AboveLimit => sync_pc \notin {"obtain_tips", "extend_tips"})
    /\ [][AboveLimit => in_flight' <= in_flight]_vars
    /\ [][(AboveLimit /\ sync_pc = "wait")
             => /\ in_flight' = in_flight - 1
                /\ sync_pc' = IF last_rsp' # Ok /\ should_restart_sync(last_rsp')
                              THEN "sync" ELSE "wait"]_vars

\* C35, amended: as C35, but for the block requests of the round the syncer
\* is in, which request_blocks goes on with above the limit.
C35_WaitsAboveLimit ==
    /\ [](sync_pc = "extend_tips" => in_flight <= lookahead_limit)
    /\ [](AboveLimit => sync_pc \notin {"obtain_tips", "extend_tips"})
    /\ [][(AboveLimit /\ in_flight' > in_flight)
             => (sync_pc = "request_blocks" /\ round_requested > 0
                 /\ round_requested' = round_requested + 1)]_vars
    /\ [][(AboveLimit /\ sync_pc = "wait")
             => /\ in_flight' = in_flight - 1
                /\ sync_pc' = IF last_rsp' # Ok /\ should_restart_sync(last_rsp')
                              THEN "sync" ELSE "wait"]_vars

\* A round has queued more blocks than lookahead_limit, the syncer has waited
\* until lookahead_limit blocks were left in flight, and it is about to extend
\* the tips.
C35_Witness ==
    /\ sync_pc = "extend_tips"
    /\ in_flight = lookahead_limit
    /\ round_requested > lookahead_limit
    /\ last_rsp # NoResponse

\* What the transactions of the verified set spend and reveal.
VerifiedSpends ==
    [outpoints |-> UNION {Range(tx.inputs) : tx \in Range(verified)},
     sprout |-> UNION {Range(tx.sprout) : tx \in Range(verified)},
     sapling |-> UNION {Range(tx.sapling) : tx \in Range(verified)},
     orchard |-> UNION {Range(tx.orchard) : tx \in Range(verified)}]

\* C36: after any calls of insert, remove and clear, the four index sets hold
\* exactly the outpoints and nullifiers of the transactions in the verified
\* set, and nothing of an evicted, removed or rejected transaction.
C36_IndexOfVerified ==
    /\ spent_outpoints = VerifiedSpends.outpoints
    /\ sprout_nullifiers = VerifiedSpends.sprout
    /\ sapling_nullifiers = VerifiedSpends.sapling
    /\ orchard_nullifiers = VerifiedSpends.orchard

\* C37: an insert that returns an error leaves the verified set and the four
\* index sets as they were.
C37_ErrorLeavesIndex ==
    [][(nops' = nops + 1 /\ ret'.op = "insert" /\ ret'.result # "Ok")
          => UNCHANGED <<verified, spent_outpoints, sprout_nullifiers,
                         sapling_nullifiers, orchard_nullifiers>>]_vars

----------------------------------------------------------------------------
(* Properties of the PeerDiscoverer.                                       *)

C39_StopsPolling ==
    /\ [](source_ended => ~discovery_event_sender)
    /\ [](source_ended => ~polled_after_end)
    /\ (source_ended ~> disc_pc = "idle")
    /\ (source_ended ~> (yielded_none /\ Len(yielded) = Len(received)))

----------------------------------------------------------------------------
(* Properties of the BestTipHeightReceiver.                                 *)

\* C40: best_tip_height returns n.unwrap_or(f) for the non-finalized value n
\* it has borrowed and the finalized value f it has read, and n was still the
\* value of the non-finalized channel at the instant f was read: the
\* non-finalized channel is not updated while the guard is held.
C40_SameInstant ==
    /\ [](receiver_pc = "returned"
             => /\ \E f \in finalized_read :
                       best_tip = Some(unwrap_or(non_finalized_guard, f))
                /\ non_finalized_at_read = non_finalized_guard)
    /\ [][receiver_pc = "borrowed"
             => non_finalized_channel' = non_finalized_channel]_vars

\* best_tip_height has returned the finalized height that was sent after it
\* had borrowed the non-finalized value, which was None.
C40_Witness ==
    /\ receiver_pc = "returned"
    /\ non_finalized_guard = None
    /\ finalized_read # finalized_at_borrow
    /\ best_tip = finalized_read

====
